---- MODULE Spec2Model ----
(***************************************************************************)
(* Retention / eviction engine of bugsink (src/events/retention.py).       *)
(*                                                                         *)
(* The event store is a bag of event rows; every database statement of the *)
(* engine (count, Min/Max aggregate, delete) is one atomic step, and the   *)
(* local computation that follows a statement up to the next one belongs   *)
(* to the same step.  Each member of Runs is one thread of control that    *)
(* calls into the engine.                                                  *)
(***************************************************************************)
EXTENDS Integers, Sequences, FiniteSets, Bags, TLC

VARIABLES
    store,   \* the Event table: a bag of rows [project, ts, irr, never_evict]
    run,     \* per thread: the locals of the call in progress and its position
    hist     \* per thread: observations of the call in progress (history only)

vars == <<store, run, hist>>

-----------------------------------------------------------------------------
(* Bounds of the model                                                     *)

MaxEpoch == 1          \* events are ingested in the epochs 0 .. MaxEpoch
MaxIrr == 1            \* irrelevance_for_retention of a row is in 0 .. MaxIrr
Capacity == 3          \* retention_max_event_count of project 1
MaxCapacity == 60      \* lowered_target is computed for the capacities 1 .. MaxCapacity

SecondsPerEpoch == 3600

Runs == {"a", "b"}
Projects == {1, 2}

None == <<>>
Some(x) == <<x>>

\* project 1 is the project under eviction; project 2 is a bystander of capacity 1
RetentionMaxEventCount(project) == IF project = 1 THEN Capacity ELSE 1

-----------------------------------------------------------------------------
(* Small helpers over sequences, sets and bags                             *)

RECURSIVE SeqMin(_)
\* variant: the smallest element instead of the largest
SeqMin(s) ==
    IF Len(s) = 1 THEN s[1]
    ELSE LET m == SeqMin(Tail(s)) IN IF s[1] < m THEN s[1] ELSE m

RECURSIVE SeqMax(_)
SeqMax(s) ==
    IF Len(s) = 1 THEN s[1]
    ELSE LET m == SeqMax(Tail(s)) IN IF s[1] > m THEN s[1] ELSE m

SetMin(S) == CHOOSE x \in S : \A y \in S : x <= y
SetMax(S) == CHOOSE x \in S : \A y \in S : x >= y

RECURSIVE BagCount(_, _)
\* number of rows of bag B that lie in the set S of row values
BagCount(B, S) ==
    IF S = {} THEN 0
    ELSE LET k == CHOOSE x \in S : TRUE
         IN (IF k \in DOMAIN B THEN B[k] ELSE 0) + BagCount(B, S \ {k})

Rows(B) == DOMAIN B

\* the bag B without the rows whose value lies in the set S
Without(B, S) == [k \in DOMAIN B \ S |-> B[k]]

-----------------------------------------------------------------------------
(* EpochClock                                                              *)

\* int(x / 3600): Python's int() truncates toward zero
GetEpoch(datetime_obj) ==
    IF datetime_obj >= 0 THEN datetime_obj \div SecondsPerEpoch
    ELSE -((-datetime_obj) \div SecondsPerEpoch)

\* variant: the instant one second before the boundary
DatetimeForEpochEarly(epoch) == epoch * SecondsPerEpoch - 1

DatetimeForEpoch(epoch) == epoch * SecondsPerEpoch

\* the Q object of get_epoch_bounds, applied to a row's server_side_timestamp
GetEpochBounds(ts, lower, upper) ==
    IF lower = None /\ upper = None THEN TRUE
    ELSE IF lower = None THEN ts < DatetimeForEpoch(upper[1])
    ELSE IF upper = None THEN ts >= DatetimeForEpoch(lower[1])
    ELSE ts >= DatetimeForEpoch(lower[1]) /\ ts < DatetimeForEpoch(upper[1])

-----------------------------------------------------------------------------
(* IrrelevanceModel and planner arithmetic                                 *)

\* variant: the trigger fires one row late
ShouldEvictLate(project, timestamp, stored_event_count) ==
    stored_event_count > RetentionMaxEventCount(project) + 1

\* variant: the trigger with >= instead of >
ShouldEvictInclusive(project, timestamp, stored_event_count) ==
    stored_event_count >= RetentionMaxEventCount(project)

ShouldEvict(project, timestamp, stored_event_count) ==
    stored_event_count > RetentionMaxEventCount(project)

\* variant: the age of a budget without the "- 1"
GetAgeForIrrelevancePower(age_based_irrelevance) == 2 ^ age_based_irrelevance

\* variant: a linear age instead of the doubling one
GetAgeForIrrelevanceLinear(age_based_irrelevance) == 2 * age_based_irrelevance

GetAgeForIrrelevance(age_based_irrelevance) == 2 ^ age_based_irrelevance - 1

RECURSIVE MapNFrom(_, _, _, _)
MapNFrom(n, f, until, onemore) ==
    IF f[n] < until THEN <<f[n]>> \o MapNFrom(n + 1, f, until, onemore)
    ELSE IF onemore THEN <<f[n]>> ELSE <<>>

\* variant: the generator always yields the element that reached the limit
MapNUntilOneMore(f, until, onemore) == MapNFrom(0, f, until, TRUE)

\* f is a function on the naturals
MapNUntil(f, until, onemore) == MapNFrom(0, f, until, onemore)

\* variant: every pair closes one element too far
PairwiseStride(it) ==
    IF Len(it) = 0 THEN <<>>
    ELSE [i \in 1 .. (Len(it) - 1) |->
             <<it[i], it[IF i + 2 <= Len(it) THEN i + 2 ELSE Len(it)]>>]

Pairwise(it) ==
    IF Len(it) = 0 THEN <<>>
    ELSE [i \in 1 .. (Len(it) - 1) |-> <<it[i], it[i + 1]>>]

\* Double-precision arithmetic of "max_event_count * 0.95".  A non-negative double
\* is held as the natural number (value * 2^53), written in limbs of 13 bits, least
\* significant first, so that no intermediate value leaves the 32-bit integers.
Limb == 2 ^ 13

\* the literal 0.95 is the double 0x1.e666666666666p-1, that is 0x1E666666666666 / 2^53
Point95 == <<1638, 4915, 6553, 7372, 1>>

RECURSIVE BitLength(_)
\* int.bit_length()
BitLength(n) == IF n = 0 THEN 0 ELSE 1 + BitLength(n \div 2)

RECURSIVE CarryLimbs(_)
CarryLimbs(carry) ==
    IF carry = 0 THEN <<>> ELSE <<carry % Limb>> \o CarryLimbs(carry \div Limb)

RECURSIVE TimesFrom(_, _, _, _)
\* the exact product of the limbs from the i-th on with the integer m (m < 2^17)
TimesFrom(limbs, m, i, carry) ==
    IF i > Len(limbs) THEN CarryLimbs(carry)
    ELSE LET x == limbs[i] * m + carry
         IN <<x % Limb>> \o TimesFrom(limbs, m, i + 1, x \div Limb)

RECURSIVE AddFrom(_, _, _)
\* the limbs from the i-th on, plus carry
AddFrom(limbs, i, carry) ==
    IF i > Len(limbs) THEN CarryLimbs(carry)
    ELSE LET x == limbs[i] + carry
         IN <<x % Limb>> \o AddFrom(limbs, i + 1, x \div Limb)

\* round-to-nearest, ties-to-even, of an exact product to the 53 significant bits of
\* a double; the bits that are rounded away lie in the two lowest limbs
RoundToDouble(limbs) ==
    LET s == (13 * (Len(limbs) - 1) + BitLength(limbs[Len(limbs)])) - 53
        low == limbs[1] + limbs[2] * Limb
        rem == low % (2 ^ s)
        odd == (low \div (2 ^ s)) % 2 = 1
        up == (2 * rem > 2 ^ s) \/ (2 * rem = 2 ^ s /\ odd)
        kept == (low - rem) + (IF up THEN 2 ^ s ELSE 0)
    IN IF s <= 0 THEN limbs
       ELSE <<kept % Limb, (kept \div Limb) % Limb>>
                \o AddFrom(limbs, 3, kept \div (Limb * Limb))

RECURSIVE ValueFrom(_, _)
ValueFrom(limbs, i) ==
    IF i > Len(limbs) THEN 0 ELSE limbs[i] + Limb * ValueFrom(limbs, i + 1)

\* int(x) of a non-negative double: the limbs above bit 52, halved
IntOfDouble(limbs) == ValueFrom(limbs, 5) \div 2

\* variant: 90% of the capacity
LoweredTargetNinety(max_event_count) == (max_event_count * 9) \div 10

\* the capacities the model passes to lowered_target
GivenCapacities == (1 .. MaxCapacity) \cup {100, 1000, 10000, 100000}

\* int(max_event_count * 0.95), tabulated once for the capacities of the model
LoweredTargetOf ==
    [max_event_count \in GivenCapacities |->
        IntOfDouble(RoundToDouble(TimesFrom(Point95, max_event_count, 1, 0)))]

\* variant: no lowering: the target is the capacity itself
LoweredTargetFull(max_event_count) == max_event_count

LoweredTarget(max_event_count) == LoweredTargetOf[max_event_count]

-----------------------------------------------------------------------------
(* The Event table                                                         *)

\* Event.objects.filter(project=project).count()
CountEvents(B, project) == BagCount(B, {e \in Rows(B) : e.project = project})

\* Event.objects.filter(project=project, never_evict=False).aggregate(Min('server_side_timestamp'))
MinTimestamp(B, project) ==
    LET ts == {e.ts : e \in {x \in Rows(B) : x.project = project /\ ~x.never_evict}}
    IN IF ts = {} THEN None ELSE Some(SetMin(ts))

\* variant: the survey's filter without never_evict=False
MaxIrrelevanceAll(B, project, lower_bound, upper_bound) ==
    LET irrs == {e.irr : e \in {x \in Rows(B) :
                     /\ GetEpochBounds(x.ts, lower_bound, upper_bound)
                     /\ x.project = project}}
    IN IF irrs = {} THEN 0 ELSE SetMax(irrs)

\* the filter of get_irrelevance_pairs, then aggregate(Max('irrelevance_for_retention')) or 0
MaxIrrelevance(B, project, lower_bound, upper_bound) ==
    LET irrs == {e.irr : e \in {x \in Rows(B) :
                     /\ GetEpochBounds(x.ts, lower_bound, upper_bound)
                     /\ x.project = project
                     /\ ~x.never_evict}}
    IN IF irrs = {} THEN 0 ELSE SetMax(irrs)

\* variant: the queryset without never_evict=False
DeleteFilterUnprotected(e, project, max_epoch, max_irrelevance) ==
    /\ e.project = project
    /\ e.irr > max_irrelevance
    /\ (max_epoch # None => e.ts < DatetimeForEpoch(max_epoch[1]))

\* variant: the queryset with irrelevance_for_retention__gte
DeleteFilterInclusive(e, project, max_epoch, max_irrelevance) ==
    /\ e.project = project
    /\ e.irr >= max_irrelevance
    /\ ~e.never_evict
    /\ (max_epoch # None => e.ts < DatetimeForEpoch(max_epoch[1]))

\* variant: the queryset without project=project
DeleteFilterAnyProject(e, project, max_epoch, max_irrelevance) ==
    /\ e.irr > max_irrelevance
    /\ ~e.never_evict
    /\ (max_epoch # None => e.ts < DatetimeForEpoch(max_epoch[1]))

\* variant: the queryset without the server_side_timestamp__lt filter
DeleteFilterNoEpoch(e, project, max_epoch, max_irrelevance) ==
    /\ e.project = project
    /\ e.irr > max_irrelevance
    /\ ~e.never_evict

\* the queryset of evict_for_epoch_and_irrelevance
DeleteFilter(e, project, max_epoch, max_irrelevance) ==
    /\ e.project = project
    /\ e.irr > max_irrelevance
    /\ ~e.never_evict
    /\ (max_epoch # None => e.ts < DatetimeForEpoch(max_epoch[1]))

\* qs.delete(): the table afterwards and nr_of_deletions
EvictForEpochAndIrrelevance(B, project, max_epoch, max_irrelevance) ==
    LET matched == {e \in Rows(B) : DeleteFilter(e, project, max_epoch, max_irrelevance)}
    IN [table |-> Without(B, matched), nr_of_deletions |-> BagCount(B, matched)]

-----------------------------------------------------------------------------
(* BucketPlanner, work filter                                              *)

\* the list [((lb, ub), age_based_irrelevance), ...], newest bucket first
GetEpochBoundsWithIrrelevance(B, project, current_timestamp) ==
    LET oldest == MinTimestamp(B, project)
        first_epoch == IF oldest # None THEN GetEpoch(oldest[1])
                       ELSE GetEpoch(current_timestamp)
        current_epoch == GetEpoch(current_timestamp)
        difference == current_epoch - first_epoch
        ages == MapNUntil([n \in Nat |-> GetAgeForIrrelevance(n)], difference, FALSE)
        swapped_bounds ==
            Pairwise(<<None>> \o [i \in 1 .. Len(ages) |-> Some(current_epoch - ages[i])]
                     \o <<None>>)
    IN [i \in 1 .. Len(swapped_bounds) |->
            <<<<swapped_bounds[i][2], swapped_bounds[i][1]>>, i - 1>>]

RECURSIVE FilterFrom(_, _, _, _)
FilterFrom(i, epoch_bounds_with_irrelevance, pairs, max_total_irrelevance) ==
    IF i > Len(pairs) \/ i > Len(epoch_bounds_with_irrelevance) THEN <<>>
    ELSE (IF pairs[i][1] + pairs[i][2] > max_total_irrelevance
          THEN <<epoch_bounds_with_irrelevance[i]>> ELSE <<>>)
         \o FilterFrom(i + 1, epoch_bounds_with_irrelevance, pairs, max_total_irrelevance)

\* variant: a bucket is kept only when its sum exceeds the threshold by two
FilterForWorkAbove(epoch_bounds_with_irrelevance, pairs, max_total_irrelevance) ==
    FilterFrom(1, epoch_bounds_with_irrelevance, pairs, max_total_irrelevance + 1)

FilterForWork(epoch_bounds_with_irrelevance, pairs, max_total_irrelevance) ==
    FilterFrom(1, epoch_bounds_with_irrelevance, pairs, max_total_irrelevance)

-----------------------------------------------------------------------------
(* State of a call                                                         *)

IdleRun ==
    [pc |-> "idle", op |-> "none", project |-> 0, timestamp |-> 0, event |-> None,
     stored_event_count |-> None, epoch_bounds_with_irrelevance |-> <<>>,
     pairs |-> <<>>, max_total_irrelevance |-> 0, orig_max_total_irrelevance |-> 0,
     deleted |-> 0, work |-> <<>>, i |-> 0, exec_deleted |-> 0,
     max_event_count |-> None, args |-> <<>>, ret |-> None]

NoTable == [k \in {} |-> 0]

NewHist(B) ==
    [store_at_call |-> B, store_at_exec |-> B, query_log |-> <<>>, thresholds |-> <<>>]

Free(r) == run[r].pc \in {"idle", "done", "raised"}

Logged(r, q) == [hist EXCEPT ![r].query_log = Append(@, q)]

\* Event.objects.create(...)
Created(B, e) ==
    [k \in DOMAIN B \cup {e} |->
        IF k # e THEN B[k] ELSE IF e \in DOMAIN B THEN B[e] + 1 ELSE 1]

-----------------------------------------------------------------------------
(* Inputs                                                                  *)

\* timestamps fall in the middle of their epoch
MidEpoch(e) == e * SecondsPerEpoch + SecondsPerEpoch \div 2

EventTimestamps == {MidEpoch(e) : e \in 0 .. MaxEpoch}
CallTimestamps == {MidEpoch(e) : e \in 0 .. (MaxEpoch + 2)}
PlannerTimestamps == {MidEpoch(e) : e \in 0 .. (MaxEpoch + 8)}

\* the bystander project holds one kind of row: old, irrelevant and evictable
OtherEvent == [project |-> 2, ts |-> MidEpoch(0), irr |-> MaxIrr, never_evict |-> FALSE]

Events ==
    [project : {1}, ts : EventTimestamps, irr : 0 .. MaxIrr, never_evict : BOOLEAN]
        \cup {OtherEvent}

GivenCounts == {None} \cup {Some(n) : n \in (Capacity - 1) .. (Capacity + 2)}
GivenThresholds == (-1) .. MaxIrr
GivenQuotas == {None, Some(1)}
GivenEpochs == {None} \cup {Some(e) : e \in 1 .. MaxEpoch}
GivenIrrelevances == (-1) .. (MaxIrr - 1)

-----------------------------------------------------------------------------
(* evict_for_max_events                                                    *)

CallEvictForMaxEvents(r, project, timestamp, stored_event_count) ==
    /\ Free(r)
    /\ run' = [run EXCEPT ![r] =
                 [IdleRun EXCEPT !.pc = IF stored_event_count = None THEN "count" ELSE "survey",
                                 !.op = "evict_for_max_events",
                                 !.project = project,
                                 !.timestamp = timestamp,
                                 !.stored_event_count = stored_event_count]]
    /\ hist' = [hist EXCEPT ![r] = NewHist(store)]
    /\ UNCHANGED store

\* line 193: stored_event_count = Event.objects.filter(project=project).count() + 1
CountQuery(r) ==
    /\ run[r].pc = "count"
    /\ run' = [run EXCEPT ![r].stored_event_count = Some(CountEvents(store, run[r].project) + 1),
                          ![r].pc = "survey"]
    /\ hist' = Logged(r, "count")
    /\ UNCHANGED store

\* line 195: get_epoch_bounds_with_irrelevance(project, timestamp)
SurveyOldest(r) ==
    /\ run[r].pc = "survey"
    /\ run' = [run EXCEPT ![r].epoch_bounds_with_irrelevance =
                              GetEpochBoundsWithIrrelevance(store, run[r].project, run[r].timestamp),
                          ![r].pc = "pairs"]
    /\ hist' = Logged(r, "min")
    /\ UNCHANGED store

\* lines 198-202: one pass of the generator get_irrelevance_pairs; after the last
\* bucket, max(sum(pair) for pair in pairs) and deleted = 0
SurveyPair(r) ==
    /\ run[r].pc = "pairs"
    /\ LET ebwi == run[r].epoch_bounds_with_irrelevance
           k == Len(run[r].pairs) + 1
           max_event_irrelevance ==
               MaxIrrelevance(store, run[r].project, ebwi[k][1][1], ebwi[k][1][2])
           pairs == Append(run[r].pairs, <<ebwi[k][2], max_event_irrelevance>>)
           most == SeqMax([j \in 1 .. Len(pairs) |-> pairs[j][1] + pairs[j][2]])
       IN run' = [run EXCEPT ![r].pairs = pairs,
                             ![r].max_total_irrelevance = IF k = Len(ebwi) THEN most ELSE @,
                             ![r].orig_max_total_irrelevance = IF k = Len(ebwi) THEN most ELSE @,
                             ![r].deleted = 0,
                             ![r].pc = IF k = Len(ebwi) THEN "loop" ELSE "pairs"]
    /\ hist' = Logged(r, "max")
    /\ UNCHANGED store

\* variant: the while test against the capacity instead of the lowered target
LoopConditionAtCapacity(stored_event_count, deleted, project) ==
    stored_event_count - deleted > RetentionMaxEventCount(project)

\* variant: the while test with >= instead of >
LoopConditionInclusive(stored_event_count, deleted, project) ==
    stored_event_count - deleted >= LoweredTarget(RetentionMaxEventCount(project))

\* variant: the while test never asks for a sweep
LoopConditionNever(stored_event_count, deleted, project) == FALSE

\* variant: the while test always asks for another sweep
LoopConditionAlways(stored_event_count, deleted, project) == TRUE

\* line 203: the while test of evict_for_max_events
LoopCondition(stored_event_count, deleted, project) ==
    stored_event_count - deleted > LoweredTarget(RetentionMaxEventCount(project))

\* variant: the exhaustion test one sweep early, after the sweep at -1
ExhaustedEarly(max_total_irrelevance) == max_total_irrelevance < 0

\* variant: the exhaustion test two sweeps early, after the sweep at 0
ExhaustedAtZero(max_total_irrelevance) == max_total_irrelevance < 1

\* variant: the exhaustion test one sweep late
ExhaustedLate(max_total_irrelevance) == max_total_irrelevance < -2

\* line 216: the exhaustion test
Exhausted(max_total_irrelevance) == max_total_irrelevance < -1

\* variant: the threshold falls by two
NextThresholdByTwo(max_total_irrelevance) == max_total_irrelevance - 2

\* line 207: max_total_irrelevance -= 1
NextThreshold(max_total_irrelevance) == max_total_irrelevance - 1

\* variant: the run returns its count of deleted rows
ReturnValueDeleted(rec) == rec.deleted

\* line 227: return max_total_irrelevance
ReturnValue(rec) == rec.max_total_irrelevance

\* variant: exhaustion ends the run with a normal return
AfterExecutorSilent(rec, nr) ==
    IF rec.op = "evict_for_irrelevance"
    THEN [rec EXCEPT !.ret = Some(nr), !.exec_deleted = nr, !.pc = "done"]
    ELSE IF Exhausted(rec.max_total_irrelevance)
    THEN [rec EXCEPT !.deleted = @ + nr,
                     !.exec_deleted = nr,
                     !.ret = Some(rec.max_total_irrelevance),
                     !.pc = IF rec.op = "ingest" THEN "insert" ELSE "done"]
    ELSE [rec EXCEPT !.deleted = @ + nr, !.exec_deleted = nr, !.pc = "loop"]

\* variant: the caller surveys again after every executor call
AfterExecutorResurvey(rec, nr) ==
    IF rec.op = "evict_for_irrelevance"
    THEN [rec EXCEPT !.ret = Some(nr), !.exec_deleted = nr, !.pc = "done"]
    ELSE [rec EXCEPT !.deleted = @ + nr,
                     !.exec_deleted = nr,
                     !.pairs = IF Exhausted(rec.max_total_irrelevance) THEN @ ELSE <<>>,
                     !.pc = IF Exhausted(rec.max_total_irrelevance) THEN "raised"
                            ELSE "survey"]

\* the state of the caller once evict_for_irrelevance has returned nr to line 209
AfterExecutor(rec, nr) ==
    IF rec.op = "evict_for_irrelevance"
    THEN [rec EXCEPT !.ret = Some(nr), !.exec_deleted = nr, !.pc = "done"]
    ELSE [rec EXCEPT !.deleted = @ + nr,
                     !.exec_deleted = nr,
                     !.pc = IF Exhausted(rec.max_total_irrelevance) THEN "raised" ELSE "loop"]

\* lines 203-214 and 227: the while test; then either the decrement, the work filter
\* and the call of evict_for_irrelevance, or the return
LoopTest(r) ==
    /\ run[r].pc = "loop"
    /\ LET rec == run[r]
           cap == RetentionMaxEventCount(rec.project)
           threshold == NextThreshold(rec.max_total_irrelevance)
           work == FilterForWork(rec.epoch_bounds_with_irrelevance, rec.pairs, threshold)
           called == [rec EXCEPT !.max_total_irrelevance = threshold,
                                 !.work = work,
                                 !.i = 1,
                                 !.exec_deleted = 0,
                                 !.max_event_count =
                                     Some((cap - LoweredTarget(cap)) - rec.deleted),
                                 !.pc = "exec"]
       IN IF LoopCondition(rec.stored_event_count[1], rec.deleted, rec.project)
          THEN /\ run' = [run EXCEPT ![r] = IF work = <<>> THEN AfterExecutor(called, 0)
                                            ELSE called]
               /\ hist' = [hist EXCEPT ![r].thresholds = Append(@, threshold),
                                       ![r].store_at_exec = store]
          ELSE /\ run' = [run EXCEPT ![r].ret = Some(ReturnValue(rec)),
                                     ![r].pc = IF rec.op = "ingest" THEN "insert" ELSE "done"]
               /\ hist' = hist
    /\ UNCHANGED store

\* get_epoch_bounds_with_irrelevance, called on its own
CallGetEpochBoundsWithIrrelevance(r, project, current_timestamp) ==
    /\ Free(r)
    /\ run' = [run EXCEPT ![r] =
                 [IdleRun EXCEPT !.pc = "done",
                                 !.op = "get_epoch_bounds_with_irrelevance",
                                 !.project = project,
                                 !.timestamp = current_timestamp,
                                 !.epoch_bounds_with_irrelevance =
                                     GetEpochBoundsWithIrrelevance(store, project,
                                                                   current_timestamp)]]
    /\ hist' = [hist EXCEPT ![r] = [NewHist(store) EXCEPT !.query_log = <<"min">>]]
    /\ UNCHANGED store

-----------------------------------------------------------------------------
(* evict_for_irrelevance                                                   *)

\* variant: the break one irrelevance early
ItemBreakAtZero(max_item_irrelevance) == max_item_irrelevance <= 0

\* lines 241 and 247: the two break tests that follow a bucket's delete
ItemBreak(max_item_irrelevance) == max_item_irrelevance <= -1

\* variant: the quota test with > instead of >=
QuotaBreakLate(max_event_count, deleted) ==
    max_event_count # None /\ deleted > max_event_count[1]

\* variant: no quota test
QuotaBreakNever(max_event_count, deleted) == FALSE

QuotaBreak(max_event_count, deleted) ==
    max_event_count # None /\ deleted >= max_event_count[1]

\* lines 236-254: one pass of the for loop: the bucket's delete, then the break tests
ExecBucket(r) ==
    /\ run[r].pc = "exec"
    /\ LET rec == run[r]
           bucket == rec.work[rec.i]
           max_item_irrelevance == rec.max_total_irrelevance - bucket[2]
           res == EvictForEpochAndIrrelevance(store, rec.project, bucket[1][2],
                                              max_item_irrelevance)
           deleted == rec.exec_deleted + res.nr_of_deletions
           stop == \/ ItemBreak(max_item_irrelevance)
                   \/ QuotaBreak(rec.max_event_count, deleted)
                   \/ rec.i = Len(rec.work)
       IN /\ store' = res.table
          /\ run' = [run EXCEPT ![r] =
                       IF stop THEN AfterExecutor(rec, deleted)
                       ELSE [rec EXCEPT !.exec_deleted = deleted, !.i = @ + 1]]
    /\ hist' = Logged(r, "delete")

CallEvictForIrrelevance(r, project, max_total_irrelevance, timestamp, max_event_count) ==
    /\ Free(r)
    /\ LET ebwi == GetEpochBoundsWithIrrelevance(store, project, timestamp)
       IN run' = [run EXCEPT ![r] =
                    [IdleRun EXCEPT !.pc = "exec",
                                    !.op = "evict_for_irrelevance",
                                    !.project = project,
                                    !.timestamp = timestamp,
                                    !.epoch_bounds_with_irrelevance = ebwi,
                                    !.work = ebwi,
                                    !.i = 1,
                                    !.max_total_irrelevance = max_total_irrelevance,
                                    !.max_event_count = max_event_count]]
    /\ hist' = [hist EXCEPT ![r] = NewHist(store)]
    /\ UNCHANGED store

-----------------------------------------------------------------------------
(* evict_for_epoch_and_irrelevance, called on its own                      *)

CallEvictForEpochAndIrrelevance(r, project, max_epoch, max_irrelevance) ==
    /\ Free(r)
    /\ LET res == EvictForEpochAndIrrelevance(store, project, max_epoch, max_irrelevance)
       IN /\ store' = res.table
          /\ run' = [run EXCEPT ![r] =
                       [IdleRun EXCEPT !.pc = "done",
                                       !.op = "evict_for_epoch_and_irrelevance",
                                       !.project = project,
                                       !.args = <<max_epoch, max_irrelevance>>,
                                       !.ret = Some(res.nr_of_deletions)]]
    /\ hist' = [hist EXCEPT ![r] = [NewHist(store) EXCEPT !.query_log = <<"delete">>]]

-----------------------------------------------------------------------------
(* The ingesting caller: count, should_evict on the count after the insert, *)
(* evict_for_max_events with that count, then the insert                    *)

CallIngest(r, event) ==
    /\ Free(r)
    /\ LET count == CountEvents(store, event.project) + 1
       IN run' = [run EXCEPT ![r] =
                    [IdleRun EXCEPT !.pc = IF ShouldEvict(event.project, event.ts, count)
                                           THEN "survey" ELSE "insert",
                                    !.op = "ingest",
                                    !.project = event.project,
                                    !.timestamp = event.ts,
                                    !.event = Some(event),
                                    !.stored_event_count = Some(count)]]
    /\ hist' = [hist EXCEPT ![r] = [NewHist(store) EXCEPT !.query_log = <<"count">>]]
    /\ UNCHANGED store

Insert(r) ==
    /\ run[r].pc = "insert"
    /\ store' = Created(store, run[r].event[1])
    /\ run' = [run EXCEPT ![r].pc = "done"]
    /\ hist' = Logged(r, "insert")

-----------------------------------------------------------------------------
(* Specifications                                                          *)

Init ==
    /\ store = NoTable
    /\ run = [r \in Runs |-> IdleRun]
    /\ hist = [r \in Runs |-> NewHist(NoTable)]

Step(r) ==
    \/ CountQuery(r)
    \/ SurveyOldest(r)
    \/ SurveyPair(r)
    \/ LoopTest(r)
    \/ ExecBucket(r)
    \/ Insert(r)

Call(r) ==
    \/ \E e \in Events : CallIngest(r, e)
    \/ \E t \in CallTimestamps, c \in GivenCounts : CallEvictForMaxEvents(r, 1, t, c)
    \/ \E T \in GivenThresholds, t \in EventTimestamps, q \in GivenQuotas :
          CallEvictForIrrelevance(r, 1, T, t, q)
    \/ \E e \in GivenEpochs, m \in GivenIrrelevances :
          CallEvictForEpochAndIrrelevance(r, 1, e, m)
    \/ \E t \in PlannerTimestamps : CallGetEpochBoundsWithIrrelevance(r, 1, t)

\* one thread of control: every call runs to its end before the next begins
Next == Call("a") \/ Step("a")

Spec == Init /\ [][Next]_vars

\* the tables that hold exactly Capacity rows of project 1
RECURSIVE TablesOf(_)
TablesOf(n) ==
    IF n = 0 THEN {NoTable}
    ELSE {Created(B, e) : B \in TablesOf(n - 1), e \in Events \ {OtherEvent}}

InitFull ==
    /\ store \in TablesOf(Capacity)
    /\ run = [r \in Runs |-> IdleRun]
    /\ hist = [r \in Runs |-> NewHist(NoTable)]

\* rows that arrive while the table is full: of the newest epoch, protected or not
ArrivingEvents ==
    [project : {1}, ts : {MidEpoch(MaxEpoch)}, irr : {MaxIrr}, never_evict : BOOLEAN]

\* calls of a thread: an insertion, or the eviction engine at the newest timestamp
Evict(r) ==
    \/ \E e \in ArrivingEvents : CallIngest(r, e)
    \/ CallEvictForMaxEvents(r, 1, MidEpoch(MaxEpoch + 1), None)
    \/ \E T \in GivenThresholds, q \in GivenQuotas :
          CallEvictForIrrelevance(r, 1, T, MidEpoch(MaxEpoch + 1), q)
    \/ \E e \in GivenEpochs, m \in GivenIrrelevances :
          CallEvictForEpochAndIrrelevance(r, 1, e, m)

\* two threads, one call each, whose database statements interleave; the table
\* starts full
NextInterleaved == \E r \in Runs : (run[r].pc = "idle" /\ Evict(r)) \/ Step(r)

SpecInterleaved == InitFull /\ [][NextInterleaved]_vars

-----------------------------------------------------------------------------
(* Properties                                                              *)

\* C1: no step of any eviction operation, in any interleaving of the threads,
\* removes a row with never_evict = true: every protected row of the table is
\* still in the table after the step, in at least as many copies.
ProtectedNeverDeleted ==
    [][\A k \in DOMAIN store :
          k.never_evict => (k \in DOMAIN store' /\ store'[k] >= store[k])]_vars

\* C1 witness: a run has raised exhaustion after deleting rows, and a protected row
\* of the highest item irrelevance and the oldest epoch is still stored.
ProtectedSurvivesWitness ==
    \E r \in Runs :
        /\ run[r].pc = "raised"
        /\ run[r].deleted > 0
        /\ \E k \in DOMAIN store :
              k.never_evict /\ k.irr = MaxIrr /\ k.ts = MidEpoch(0) /\ k.project = 1

-----------------------------------------------------------------------------
(* Vocabulary of the properties                                            *)

Range(q) == {q[j] : j \in 1 .. Len(q)}

\* the run of thread r is (or has reached) a call of evict_for_max_events whose
\* stored_event_count is known
PlannerRun(r) ==
    /\ run[r].stored_event_count # None
    /\ \/ run[r].op = "evict_for_max_events"
       \/ /\ run[r].op = "ingest"
          /\ run[r].stored_event_count[1] > RetentionMaxEventCount(run[r].project)

ReturnedNormally(r) == PlannerRun(r) /\ run[r].ret # None

\* stored_event_count is the row count of the project when the call began, plus one
Accurate(r) ==
    run[r].stored_event_count[1] = CountEvents(hist[r].store_at_call, run[r].project) + 1

EvictableAtCall(r) ==
    BagCount(hist[r].store_at_call,
             {e \in Rows(hist[r].store_at_call) : e.project = run[r].project /\ ~e.never_evict})

Target(r) == LoweredTarget(RetentionMaxEventCount(run[r].project))

\* the age-based irrelevance of the bucket of the list ebwi that holds timestamp ts
TagAt(ts, ebwi) ==
    ebwi[CHOOSE j \in 1 .. Len(ebwi) : GetEpochBounds(ts, ebwi[j][1][1], ebwi[j][1][2])][2]

TotalIrrelevance(e, ebwi) == TagAt(e.ts, ebwi) + e.irr

RECURSIVE FloorLog2(_)
FloorLog2(n) == IF n < 2 THEN 0 ELSE 1 + FloorLog2(n \div 2)

CeilLog2(n) == IF n <= 1 THEN 0 ELSE 1 + FloorLog2(n - 1)

\* floor(seconds / 3600)
EpochOf(ts) == ts \div SecondsPerEpoch

\* current epoch of the call minus the epoch of the oldest evictable row of the
\* project when the call began (0 when there is none)
Span(r) ==
    LET ts == {e.ts : e \in {x \in Rows(hist[r].store_at_call) :
                                x.project = run[r].project /\ ~x.never_evict}}
    IN IF ts = {} THEN 0 ELSE EpochOf(run[r].timestamp) - EpochOf(SetMin(ts))

Planned(r) == run[r].epoch_bounds_with_irrelevance # <<>>

-----------------------------------------------------------------------------

\* C2: with every insertion made by the ingesting caller (should_evict on the count
\* after the insert, evict_for_max_events with that count when it is true, then the
\* insert; no insert when the run raises), no project ever stores more rows than its
\* retention_max_event_count.
CountBoundedByCapacity ==
    \A p \in Projects : CountEvents(store, p) <= RetentionMaxEventCount(p)

\* C2 witness: an insertion that triggered eviction has deleted rows and inserted.
EvictThenInsertWitness ==
    /\ run["a"].op = "ingest"
    /\ run["a"].pc = "done"
    /\ run["a"].project = 1
    /\ run["a"].deleted >= 2
    /\ CountEvents(store, 1) = Capacity - 1

\* C3: when a run of evict_for_max_events whose stored_event_count was accurate
\* returns normally (one thread, so no concurrent writer), stored_event_count minus
\* the rows the run deleted is between 0 and lowered_target(capacity); and
\* lowered_target(10000) is 9500.
Convergence ==
    /\ \A r \in Runs :
          (ReturnedNormally(r) /\ Accurate(r)) =>
              /\ run[r].stored_event_count[1] - run[r].deleted <= Target(r)
              /\ run[r].stored_event_count[1] - run[r].deleted >= 0
    /\ LoweredTarget(10000) = 9500

\* C3 witness: a run called at capacity + 1 with an accurate count has returned after
\* deleting rows in more than one executor call.
ConvergedWitness ==
    /\ ReturnedNormally("a")
    /\ Accurate("a")
    /\ run["a"].op = "evict_for_max_events"
    /\ run["a"].stored_event_count = Some(Capacity + 1)
    /\ run["a"].deleted >= 2
    /\ Len(hist["a"].thresholds) >= 2

\* C4: a run of evict_for_max_events that began with fewer evictable rows than
\* stored_event_count - lowered_target(capacity) never returns normally, and where
\* it has raised, the threshold is below -1; and 10001 - lowered_target(10000) = 501.
ExhaustionIsFatal ==
    /\ \A r \in Runs :
          (PlannerRun(r) /\ EvictableAtCall(r) < run[r].stored_event_count[1] - Target(r)) =>
              /\ run[r].ret = None
              /\ run[r].pc \notin {"done", "insert"}
              /\ run[r].pc = "raised" => run[r].max_total_irrelevance < -1
    /\ 10001 - LoweredTarget(10000) = 501

\* C4 witness: a run short of evictable rows has raised after deleting the only
\* evictable row, with protected rows left over the target.
ExhaustedWitness ==
    /\ PlannerRun("a")
    /\ run["a"].pc = "raised"
    /\ EvictableAtCall("a") = 1
    /\ run["a"].deleted = 1
    /\ run["a"].stored_event_count[1] - run["a"].deleted > Target("a")

\* C5: a call of evict_for_max_events with stored_event_count <= lowered_target
\* issues no delete query, and the table is what it was when the call began.
NoOpBelowTarget ==
    \A r \in Runs :
        (/\ run[r].op = "evict_for_max_events"
         /\ run[r].stored_event_count # None
         /\ run[r].stored_event_count[1] <= Target(r)) =>
            /\ "delete" \notin Range(hist[r].query_log)
            /\ store = hist[r].store_at_call

\* C5 witness: such a call has returned over a table that holds evictable rows.
NoOpWitness ==
    /\ run["a"].op = "evict_for_max_events"
    /\ run["a"].pc = "done"
    /\ run["a"].stored_event_count = Some(Target("a"))
    /\ EvictableAtCall("a") >= 2
    /\ hist["a"].query_log # <<>>

\* C6: within one run the thresholds passed to successive executor calls fall by
\* exactly 1, so a row whose total irrelevance exceeds the threshold of one call
\* exceeds the threshold of the next.
ThresholdSweepMonotonic ==
    \A r \in Runs :
        \A k \in 1 .. (Len(hist[r].thresholds) - 1) :
            /\ hist[r].thresholds[k + 1] = hist[r].thresholds[k] - 1
            /\ \A e \in Rows(hist[r].store_at_call) :
                  TotalIrrelevance(e, run[r].epoch_bounds_with_irrelevance)
                          > hist[r].thresholds[k]
                      => TotalIrrelevance(e, run[r].epoch_bounds_with_irrelevance)
                             > hist[r].thresholds[k + 1]

\* C6 witness: a run has made three executor calls.
ThreeCallsWitness == Len(hist["a"].thresholds) >= 3 /\ run["a"].deleted >= 1

\* the epochs and timestamps at which the bucket lists are probed
ProbeTimestamps ==
    UNION {{DatetimeForEpoch(e), MidEpoch(e), DatetimeForEpoch(e + 1) - 1} :
               e \in (-3) .. (MaxEpoch + 10)}

\* C7: the buckets of get_epoch_bounds_with_irrelevance partition time: the newest
\* has no upper bound, the oldest no lower bound, each bucket's lower bound is the
\* upper bound of the next, and every timestamp lies in exactly one bucket.
BucketsPartition ==
    \A r \in Runs :
        Planned(r) =>
            LET ebwi == run[r].epoch_bounds_with_irrelevance IN
            /\ ebwi[1][1][2] = None
            /\ ebwi[Len(ebwi)][1][1] = None
            /\ \A j \in 1 .. (Len(ebwi) - 1) :
                  ebwi[j][1][1] # None /\ ebwi[j][1][1] = ebwi[j + 1][1][2]
            /\ \A ts \in ProbeTimestamps :
                  Cardinality({j \in 1 .. Len(ebwi) :
                                  GetEpochBounds(ts, ebwi[j][1][1], ebwi[j][1][2])}) = 1

\* C7 witness: a bucket list of at least four buckets.
FourBucketsWitness ==
    Planned("a") /\ Len(run["a"].epoch_bounds_with_irrelevance) >= 4

\* the step is a bucket delete of the executor call of thread r
BucketDeleteStep(r) ==
    /\ run[r].pc = "exec"
    /\ hist'[r].query_log = Append(hist[r].query_log, "delete")

\* C8: every row that a bucket delete of an executor call with threshold T removes
\* has a total irrelevance (age irrelevance of the bucket that holds it, plus its
\* item irrelevance) above T; rows with a total of T or less stay.
TiesPreserved ==
    [][\A r \in Runs :
          BucketDeleteStep(r) =>
              \A k \in DOMAIN store :
                  (k \notin DOMAIN store' \/ store'[k] < store[k]) =>
                      TotalIrrelevance(k, run[r].epoch_bounds_with_irrelevance)
                          > run[r].max_total_irrelevance]_vars

\* C8 witness: an executor call stopped by its quota before the last bucket has
\* deleted rows, and an evictable row whose total equals the threshold is stored.
TieKeptWitness ==
    /\ run["a"].pc \in {"loop", "done"}
    /\ run["a"].work # <<>>
    /\ run["a"].exec_deleted >= 1
    /\ QuotaBreak(run["a"].max_event_count, run["a"].exec_deleted)
    /\ \E k \in DOMAIN store :
          /\ k.project = 1
          /\ ~k.never_evict
          /\ TotalIrrelevance(k, run["a"].epoch_bounds_with_irrelevance)
                 = run["a"].max_total_irrelevance

\* C9 as amended: for every age a with 0 <= a <= span, the bucket that holds the
\* epoch (current epoch - a) is tagged ceil(log2(a + 1)), that is the bit length of
\* a; the tag is non-decreasing in the age.
AgeTagIsCeilLog2 ==
    \A r \in Runs :
        Planned(r) =>
            LET ebwi == run[r].epoch_bounds_with_irrelevance
                tag(a) == TagAt(MidEpoch(EpochOf(run[r].timestamp) - a), ebwi)
            IN /\ \A a \in 0 .. Span(r) : tag(a) = CeilLog2(a + 1)
               /\ \A a \in 0 .. (Span(r) - 1) : tag(a) <= tag(a + 1)

\* C9 as stated: the tag of the bucket of age a is floor(log2(a + 1)).
AgeTagIsFloorLog2 ==
    \A r \in Runs :
        Planned(r) =>
            LET ebwi == run[r].epoch_bounds_with_irrelevance
                tag(a) == TagAt(MidEpoch(EpochOf(run[r].timestamp) - a), ebwi)
            IN /\ \A a \in 0 .. Span(r) : tag(a) = FloorLog2(a + 1)
               /\ \A a \in 0 .. (Span(r) - 1) : tag(a) <= tag(a + 1)

\* C9 witness: a bucket list planned over a span of at least 4 epochs.
WideSpanWitness == Planned("a") /\ Span("a") >= 4

\* C10 as amended: evict_for_max_events returns the threshold it ended with: the
\* threshold of its last executor call, or the surveyed maximum when it made none.
ReturnsFinalThreshold ==
    \A r \in Runs :
        ReturnedNormally(r) =>
            run[r].ret = Some(IF hist[r].thresholds = <<>>
                              THEN run[r].orig_max_total_irrelevance
                              ELSE hist[r].thresholds[Len(hist[r].thresholds)])

\* C10 as stated: evict_for_max_events returns the number of rows it deleted.
ReturnsDeletedCount ==
    \A r \in Runs : ReturnedNormally(r) => run[r].ret = Some(run[r].deleted)

\* C10 witness: a run has returned after deleting rows.
ReturnedAfterDeletesWitness ==
    ReturnedNormally("a") /\ run["a"].deleted >= 1 /\ run["a"].op = "evict_for_max_events"

-----------------------------------------------------------------------------
(* A run of the engine without any other writer: the statements of one call *)
(* applied one after the other to the table B                               *)

RECURSIVE ExecFrom(_, _, _, _, _, _, _)
\* lines 236-254: the for loop of evict_for_irrelevance from its i-th bucket on
ExecFrom(B, project, work, i, max_total_irrelevance, max_event_count, deleted) ==
    IF i > Len(work) THEN [table |-> B, deleted |-> deleted]
    ELSE LET max_item_irrelevance == max_total_irrelevance - work[i][2]
             res == EvictForEpochAndIrrelevance(B, project, work[i][1][2],
                                                max_item_irrelevance)
             now == deleted + res.nr_of_deletions
         IN IF ItemBreak(max_item_irrelevance) \/ QuotaBreak(max_event_count, now)
            THEN [table |-> res.table, deleted |-> now]
            ELSE ExecFrom(res.table, project, work, i + 1, max_total_irrelevance,
                          max_event_count, now)

EvictForIrrelevance(B, project, max_total_irrelevance, ebwi, max_event_count) ==
    ExecFrom(B, project, ebwi, 1, max_total_irrelevance, max_event_count, 0)

RECURSIVE Sweep(_, _, _, _, _, _, _)
\* lines 203-227: the while loop of evict_for_max_events; ret is None when it raises
Sweep(B, project, ebwi, pairs, max_total_irrelevance, stored_event_count, deleted) ==
    IF ~LoopCondition(stored_event_count, deleted, project)
    THEN [table |-> B, deleted |-> deleted, ret |-> Some(max_total_irrelevance)]
    ELSE LET cap == RetentionMaxEventCount(project)
             threshold == NextThreshold(max_total_irrelevance)
             res == EvictForIrrelevance(
                        B, project, threshold,
                        FilterForWork(ebwi, pairs, threshold),
                        Some((cap - LoweredTarget(cap)) - deleted))
             now == deleted + res.deleted
         IN IF Exhausted(threshold)
            THEN [table |-> res.table, deleted |-> now, ret |-> None]
            ELSE Sweep(res.table, project, ebwi, pairs, threshold, stored_event_count, now)

\* lines 187-227: evict_for_max_events as one uninterrupted run over the table B
EvictForMaxEvents(B, project, timestamp, stored_event_count) ==
    LET count == IF stored_event_count = None THEN CountEvents(B, project) + 1
                 ELSE stored_event_count[1]
        ebwi == GetEpochBoundsWithIrrelevance(B, project, timestamp)
        pairs == [k \in 1 .. Len(ebwi) |->
                     <<ebwi[k][2],
                       MaxIrrelevance(B, project, ebwi[k][1][1], ebwi[k][1][2])>>]
        most == SeqMax([k \in 1 .. Len(pairs) |-> pairs[k][1] + pairs[k][2]])
    IN Sweep(B, project, ebwi, pairs, most, count, 0)

\* the thread has ended a call of evict_for_max_events that counted the rows itself
\* and found n of them
EndedAfterCounting(r, n) ==
    /\ run[r].op = "evict_for_max_events"
    /\ run[r].pc \in {"done", "raised"}
    /\ run[r].project = 1
    /\ "count" \in Range(hist[r].query_log)
    /\ run[r].stored_event_count = Some(n + 1)

\* both threads have ended such a call, and both counted a full table
BothEndedOverCapacity == \A r \in Runs : EndedAfterCounting(r, Capacity)

\* C11: the engine takes no lock.  When two runs of evict_for_max_events for one
\* project have both counted the same full table (stored_event_count = capacity + 1)
\* and their statements interleave, each run sweeps until its own deletions make up
\* the whole excess, whatever the other run deleted: a run that returned has itself
\* deleted at least stored_event_count - lowered_target rows, a run that raised has
\* left no evictable row, and the table ends with at most as many rows as one run
\* alone leaves from the same initial table (strictly fewer in the witness).
ConcurrentRunsOverEvict ==
    BothEndedOverCapacity =>
        LET initial == hist["a"].store_at_call
            single == EvictForMaxEvents(initial, 1, run["a"].timestamp, None)
        IN /\ hist["b"].store_at_call = initial
           /\ CountEvents(initial, 1) = Capacity
           /\ \A r \in Runs :
                 /\ run[r].pc = "done" =>
                        run[r].deleted >= run[r].stored_event_count[1] - Target(r)
                 /\ run[r].pc = "raised" =>
                        \A k \in DOMAIN store : k.project = 1 => k.never_evict
           /\ CountEvents(store, 1) <= CountEvents(single.table, 1)
           /\ CountEvents(store, 1)
                  = Capacity - (run["a"].deleted + run["b"].deleted)

\* C11 witness: both runs have deleted rows, and the table holds fewer rows than one
\* run alone leaves from the same initial table.
OverEvictedWitness ==
    /\ BothEndedOverCapacity
    /\ run["a"].deleted >= 1
    /\ run["b"].deleted >= 1
    /\ CountEvents(store, 1)
           < CountEvents(EvictForMaxEvents(hist["a"].store_at_call, 1,
                                           run["a"].timestamp, None).table, 1)

\* a single run, checked against the step-by-step model: the table a call of
\* evict_for_max_events leaves when no other thread writes
SequentialRunAgrees ==
    \A r \in Runs :
        (run[r].op = "evict_for_max_events" /\ run[r].pc \in {"done", "raised"}) =>
            LET single == EvictForMaxEvents(hist[r].store_at_call, run[r].project,
                                            run[r].timestamp,
                                            IF "count" \in Range(hist[r].query_log)
                                            THEN None ELSE run[r].stored_event_count)
            IN /\ store = single.table
               /\ run[r].deleted = single.deleted
               /\ run[r].ret = single.ret

-----------------------------------------------------------------------------
(* Termination                                                             *)

\* the calls that run evict_for_max_events: insertions and direct calls
Runner(r) ==
    \/ \E e \in Events : CallIngest(r, e)
    \/ \E t \in {MidEpoch(MaxEpoch), MidEpoch(MaxEpoch + 2)},
          c \in {None, Some(Capacity + 2)} : CallEvictForMaxEvents(r, 1, t, c)

NextRunner == Runner("a") \/ Step("a")

\* a thread that has begun a call goes on executing it: nothing in the engine waits
SpecFair == Init /\ [][NextRunner]_vars /\ WF_vars(Step("a"))

Busy(r) == ~Free(r)

\* the sweeps of the run of thread r so far, and the buckets of its current sweep
SweepsBounded(r) ==
    /\ Len(hist[r].thresholds) <= run[r].orig_max_total_irrelevance + 2
    /\ Len(run[r].work) <= Len(run[r].epoch_bounds_with_irrelevance)
    /\ run[r].i <= Len(run[r].work)
    /\ Len(run[r].pairs) <= Len(run[r].epoch_bounds_with_irrelevance)

\* C12: every run of evict_for_max_events ends: a thread that is inside a call
\* eventually has returned or raised; the run makes at most (surveyed maximum total
\* irrelevance + 2) sweeps, and each sweep visits at most the buckets of the planned
\* list.
Terminates ==
    /\ [](\A r \in Runs : SweepsBounded(r))
    /\ \A r \in Runs : Busy(r) ~> (run[r].pc \in {"done", "raised"})

\* C12 witness: a run whose survey found a maximum of at least 1 has raised after
\* exactly (maximum + 2) sweeps.
LongestRunWitness ==
    /\ run["a"].pc = "raised"
    /\ PlannerRun("a")
    /\ run["a"].orig_max_total_irrelevance >= 1
    /\ Len(hist["a"].thresholds) = run["a"].orig_max_total_irrelevance + 2

-----------------------------------------------------------------------------
(* The functions of the engine that touch no table                         *)

MaxBits == 6           \* arguments of nonzero_leading_bits are below 2^MaxBits
MaxIssueEvents == 4    \* event counts passed to get_random_irrelevance
DrawGrid == 8          \* random() draws one of the values k / DrawGrid, 0 <= k < DrawGrid

RECURSIVE FormatB(_)
\* format(n, 'b') for n >= 0, as the sequence of its digits
FormatB(n) == IF n < 2 THEN <<n>> ELSE FormatB(n \div 2) \o <<n % 2>>

RECURSIVE RStrip0(_)
\* s.rstrip('0')
RStrip0(s) ==
    IF s = <<>> THEN <<>>
    ELSE IF s[Len(s)] = 0 THEN RStrip0(SubSeq(s, 1, Len(s) - 1))
    ELSE s

\* variant: the length of the binary representation, nothing stripped
NonzeroLeadingBitsUnstripped(n) == Len(FormatB(n))

NonzeroLeadingBits(n) == Len(RStrip0(FormatB(n)))

\* round(num / den) for num >= 0: Python rounds a tie to the even neighbour
Round(num, den) ==
    LET q == num \div den
        r == num % den
    IN IF 2 * r > den THEN q + 1
       ELSE IF 2 * r < den THEN q
       ELSE IF q % 2 = 0 THEN q ELSE q + 1

\* variant: the draw scaled by 4
GetRandomIrrelevanceTimesFour(event_count, k) ==
    NonzeroLeadingBits(Round(k * event_count * 4, DrawGrid))

\* get_random_irrelevance when random() returns k / DrawGrid
GetRandomIrrelevance(event_count, k) ==
    NonzeroLeadingBits(Round(k * event_count * 2, DrawGrid))

\* a call of a function without database statements: it returns at once
Apply(r, op, args, ret) ==
    /\ Free(r)
    /\ run' = [run EXCEPT ![r] =
                 [IdleRun EXCEPT !.pc = "done", !.op = op, !.args = args,
                                 !.ret = Some(ret)]]
    /\ hist' = [hist EXCEPT ![r] = NewHist(store)]
    /\ UNCHANGED store

CallGetEpoch(r, datetime_obj) ==
    Apply(r, "get_epoch", <<datetime_obj>>, GetEpoch(datetime_obj))

CallDatetimeForEpoch(r, epoch) ==
    Apply(r, "datetime_for_epoch", <<epoch>>, DatetimeForEpoch(epoch))

CallNonzeroLeadingBits(r, n) ==
    Apply(r, "nonzero_leading_bits", <<n>>, NonzeroLeadingBits(n))

\* random() is a choice among the draws
CallGetRandomIrrelevance(r, event_count) ==
    \E k \in 0 .. (DrawGrid - 1) :
        Apply(r, "get_random_irrelevance", <<event_count, k>>,
              GetRandomIrrelevance(event_count, k))

CallShouldEvict(r, project, timestamp, stored_event_count) ==
    Apply(r, "should_evict", <<project, timestamp, stored_event_count>>,
          ShouldEvict(project, timestamp, stored_event_count))

CallGetAgeForIrrelevance(r, age_based_irrelevance) ==
    Apply(r, "get_age_for_irrelevance", <<age_based_irrelevance>>,
          GetAgeForIrrelevance(age_based_irrelevance))

CallLoweredTarget(r, max_event_count) ==
    Apply(r, "lowered_target", <<max_event_count>>, LoweredTarget(max_event_count))

\* the epochs passed to datetime_for_epoch: before and after the reference instant
ProbeEpochs == (-3) .. (MaxEpoch + 10)

Functions(r) ==
    \/ \E ts \in ProbeTimestamps : CallGetEpoch(r, ts)
    \/ \E e \in ProbeEpochs : CallDatetimeForEpoch(r, e)
    \/ \E n \in 0 .. (2 ^ MaxBits - 1) : CallNonzeroLeadingBits(r, n)
    \/ \E c \in 0 .. MaxIssueEvents : CallGetRandomIrrelevance(r, c)
    \/ \E p \in Projects, t \in CallTimestamps, c \in 0 .. (Capacity + 2) :
          CallShouldEvict(r, p, t, c)
    \/ \E b \in 0 .. MaxBits : CallGetAgeForIrrelevance(r, b)
    \/ \E m \in GivenCapacities : CallLoweredTarget(r, m)

NextFunctions == Functions("a")

SpecFunctions == Init /\ [][NextFunctions]_vars

\* the thread has returned from a call of the function op
Returned(r, op) == run[r].op = op /\ run[r].pc = "done" /\ run[r].ret # None

-----------------------------------------------------------------------------

\* C13: datetime_for_epoch(e) is the instant exactly e * 3600 seconds after the
\* reference instant, for negative epochs too, and get_epoch of that instant is e
\* again; get_epoch of any instant on an epoch boundary is its exact quotient.
EpochRoundTrip ==
    \A r \in Runs :
        /\ Returned(r, "datetime_for_epoch") =>
              /\ run[r].ret[1] = run[r].args[1] * 3600
              /\ GetEpoch(run[r].ret[1]) = run[r].args[1]
        /\ (Returned(r, "get_epoch") /\ run[r].args[1] % 3600 = 0) =>
              run[r].ret[1] * 3600 = run[r].args[1]

\* C13 witness: datetime_for_epoch has returned the instant of a negative epoch.
NegativeEpochWitness ==
    /\ Returned("a", "datetime_for_epoch")
    /\ run["a"].args[1] = -2
    /\ run["a"].ret[1] < 0

\* C14 as stated: get_epoch returns floor(seconds / 3600) for every timestamp, on
\* an hour boundary or not, after the reference instant or before it.
GetEpochIsFloor ==
    \A r \in Runs :
        Returned(r, "get_epoch") => run[r].ret[1] = EpochOf(run[r].args[1])

\* C15: nonzero_leading_bits(n), for n >= 0, is the bit length of n minus the number
\* of its trailing zero bits, 0 for n = 0; 0b100000 -> 1, 0b101000 -> 3,
\* 0b110001 -> 6.
NonzeroLeadingBitsIsStrippedLength ==
    /\ \A r \in Runs :
          Returned(r, "nonzero_leading_bits") =>
              LET n == run[r].args[1]
                  zeros == IF n = 0 THEN 0
                           ELSE CHOOSE z \in 0 .. MaxBits + 1 :
                                    n % (2 ^ z) = 0 /\ n % (2 ^ (z + 1)) # 0
              IN run[r].ret[1] = BitLength(n) - zeros
    /\ NonzeroLeadingBits(32) = 1
    /\ NonzeroLeadingBits(40) = 3
    /\ NonzeroLeadingBits(49) = 6
    /\ NonzeroLeadingBits(0) = 0

\* C15 witness: the call for 0b101000 has returned 3.
StrippedWitness ==
    /\ Returned("a", "nonzero_leading_bits")
    /\ run["a"].args = <<40>>
    /\ run["a"].ret = Some(3)

\* C16: get_age_for_irrelevance(b) is 2^b - 1 for b >= 0 (0, 1, 3, 7, 15 for b up to
\* 4), grows strictly with b, and floor(log2(get_age_for_irrelevance(b) + 1)) = b.
AgeForIrrelevanceIsInverse ==
    /\ \A r \in Runs :
          Returned(r, "get_age_for_irrelevance") =>
              LET b == run[r].args[1]
                  age == run[r].ret[1]
              IN /\ age + 1 = 2 ^ b
                 /\ FloorLog2(age + 1) = b
                 /\ b > 0 => age > GetAgeForIrrelevance(b - 1)
    /\ [b \in 0 .. 4 |-> GetAgeForIrrelevance(b)] = [b \in 0 .. 4 |-> <<0, 1, 3, 7, 15>>[b + 1]]

\* C16 witness: the call for the budget 4 has returned 15.
AgeFifteenWitness ==
    /\ Returned("a", "get_age_for_irrelevance")
    /\ run["a"].args = <<4>>
    /\ run["a"].ret = Some(15)

\* C17: should_evict is true exactly when stored_event_count is at least one above
\* the project's retention_max_event_count (false at the capacity itself), whatever
\* the timestamp.
ShouldEvictIsStrict ==
    \A r \in Runs :
        Returned(r, "should_evict") =>
            LET project == run[r].args[1]
                count == run[r].args[3]
            IN /\ run[r].ret[1] = (count >= RetentionMaxEventCount(project) + 1)
               /\ \A t \in CallTimestamps \cup ProbeTimestamps :
                     ShouldEvict(project, t, count) = run[r].ret[1]

\* C17 witness: the call with a count equal to the capacity has returned false.
AtCapacityWitness ==
    /\ Returned("a", "should_evict")
    /\ run["a"].args[1] = 1
    /\ run["a"].args[3] = Capacity
    /\ run["a"].ret = Some(FALSE)

\* C18: lowered_target(max) is floor(max * 95 / 100) for a positive capacity max,
\* which is below max: the gap max - lowered_target(max) is at least 1.
LoweredTargetIsFloor ==
    \A r \in Runs :
        Returned(r, "lowered_target") =>
            LET max == run[r].args[1]
            IN /\ run[r].ret[1] = (max * 95) \div 100
               /\ run[r].ret[1] < max
               /\ max - run[r].ret[1] >= 1

\* C18 witness: the call for the capacity 20, whose exact 95% is the integer 19 while
\* the double 0.95 lies below 19/20, has returned 19.
TwentyWitness ==
    /\ Returned("a", "lowered_target")
    /\ run["a"].args = <<20>>
    /\ run["a"].ret = Some(19)

\* the rows an item irrelevance can belong to, and the epoch bounds of a delete
RowsOfIrrelevance(irr) ==
    [project : {1}, ts : EventTimestamps, irr : {irr}, never_evict : BOOLEAN]

\* C19: get_random_irrelevance(c), for c >= 0 and a draw u = k / DrawGrid in [0, 1),
\* returns nonzero_leading_bits(round(u * c * 2)), an integer from 0 to the bit
\* length of 2c; so a delete with the item bound -1 matches every row of that
\* irrelevance that is not protected and lies below the delete's epoch bound.
RandomIrrelevanceNonNegative ==
    \A r \in Runs :
        Returned(r, "get_random_irrelevance") =>
            LET c == run[r].args[1]
                k == run[r].args[2]
                irr == run[r].ret[1]
            IN /\ irr = NonzeroLeadingBits(Round(2 * c * k, DrawGrid))
               /\ Round(2 * c * k, DrawGrid) \in 0 .. (2 * c)
               /\ irr \in 0 .. BitLength(2 * c)
               /\ \A e \in RowsOfIrrelevance(irr), max_epoch \in GivenEpochs :
                     DeleteFilter(e, 1, max_epoch, -1)
                         <=> /\ ~e.never_evict
                             /\ max_epoch # None => EpochOf(e.ts) < max_epoch[1]

\* C19 witness: a draw close to 1 has been rounded up to 2c, and the irrelevance
\* returned for it is 1.
RoundedUpWitness ==
    /\ Returned("a", "get_random_irrelevance")
    /\ run["a"].args[1] = 2
    /\ Round(2 * run["a"].args[1] * run["a"].args[2], DrawGrid) = 4
    /\ run["a"].ret = Some(1)

\* C20: for the span d = current epoch - epoch of the oldest evictable row (0 without
\* one), get_epoch_bounds_with_irrelevance returns m + 1 buckets, m the number of
\* n >= 0 with 2^n - 1 < d (the bit length of d; one bucket when d <= 0), newest
\* first: the i-th bucket (from 0) is tagged i, bucket 0 has no upper bound, the last
\* has no lower bound, and for i > 0 the upper bound of bucket i is
\* current epoch - (2^(i-1) - 1), which is the lower bound of bucket i - 1.
PlannerShape ==
    \A r \in Runs :
        Planned(r) =>
            LET ebwi == run[r].epoch_bounds_with_irrelevance
                d == Span(r)
                current_epoch == EpochOf(run[r].timestamp)
                m == Cardinality({n \in 0 .. (MaxEpoch + 10) : 2 ^ n - 1 < d})
            IN /\ Len(ebwi) = m + 1
               /\ m = (IF d <= 0 THEN 0 ELSE BitLength(d))
               /\ \A i \in 0 .. m : ebwi[i + 1][2] = i
               /\ ebwi[1][1][2] = None
               /\ ebwi[m + 1][1][1] = None
               /\ \A i \in 1 .. m :
                     /\ ebwi[i + 1][1][2] = Some(current_epoch - (2 ^ (i - 1) - 1))
                     /\ ebwi[i + 1][1][2] = ebwi[i][1][1]

\* C20 witness: a list planned over a span of 8 epochs has five buckets.
FiveBucketsWitness ==
    /\ Planned("a")
    /\ Span("a") = 8
    /\ Len(run["a"].epoch_bounds_with_irrelevance) = 5

-----------------------------------------------------------------------------
(* Survey, work filter and executor: vocabulary                            *)

\* the rows of the project in table B that are not protected
EvictableRows(B, project) == {e \in Rows(B) : e.project = project /\ ~e.never_evict}

\* the epoch of row e lies in the range [low, high) of the bucket
InBucket(e, bucket) ==
    /\ bucket[1][1] # None => EpochOf(e.ts) >= bucket[1][1][1]
    /\ bucket[1][2] # None => EpochOf(e.ts) < bucket[1][2][1]

\* thread r is in a call of evict_for_max_events and has planned its buckets
Surveying(r) ==
    /\ run[r].op \in {"evict_for_max_events", "ingest"}
    /\ Planned(r)

Surveyed(r) ==
    /\ Surveying(r)
    /\ Len(run[r].pairs) = Len(run[r].epoch_bounds_with_irrelevance)

\* the pending row of an insertion has not been stored yet
BeforeInsert(r) == "insert" \notin Range(hist[r].query_log)

\* the first executor call of the run is over
FirstSweepOver(r) ==
    \/ Len(hist[r].thresholds) >= 2
    \/ Len(hist[r].thresholds) = 1 /\ run[r].pc # "exec"

\* the largest total irrelevance of an evictable row of table B, 0 without one
ObservedMaximum(B, project, ebwi) ==
    LET totals == {TotalIrrelevance(e, ebwi) : e \in EvictableRows(B, project)}
    IN IF totals = {} THEN 0 ELSE SetMax(totals)

-----------------------------------------------------------------------------

\* C21: get_irrelevance_pairs yields one pair per bucket, in the order of the
\* buckets: the bucket's age irrelevance, and the largest item irrelevance among the
\* rows of the project with never_evict = false whose epoch lies in the bucket's
\* range, 0 when there is none; protected rows and rows of other projects do not
\* count.
SurveyIsBucketMaximum ==
    \A r \in Runs :
        Surveying(r) =>
            LET ebwi == run[r].epoch_bounds_with_irrelevance
                pairs == run[r].pairs
                irrs(k) == {e.irr : e \in {x \in EvictableRows(hist[r].store_at_call,
                                                               run[r].project) :
                                              InBucket(x, ebwi[k])}}
            IN /\ Len(pairs) <= Len(ebwi)
               /\ run[r].pc \notin {"survey", "pairs"} => Len(pairs) = Len(ebwi)
               /\ \A k \in 1 .. Len(pairs) :
                     /\ pairs[k][1] = ebwi[k][2]
                     /\ pairs[k][2] = (IF irrs(k) = {} THEN 0 ELSE SetMax(irrs(k)))

\* C21 witness: a finished survey of several buckets found the maximum 0 in a bucket
\* that holds a protected row of item irrelevance 1 and a row of the other project,
\* and a maximum of 1 in another bucket.
ProtectedIgnoredWitness ==
    /\ Surveyed("a")
    /\ run["a"].project = 1
    /\ \E k, j \in 1 .. Len(run["a"].pairs) :
          /\ run["a"].pairs[k][2] = 0
          /\ run["a"].pairs[j][2] = 1
          /\ \E e \in Rows(hist["a"].store_at_call) :
                /\ e.project = 1 /\ e.never_evict /\ e.irr = 1
                /\ InBucket(e, run["a"].epoch_bounds_with_irrelevance[k])
          /\ InBucket(OtherEvent, run["a"].epoch_bounds_with_irrelevance[k])
          /\ OtherEvent \in Rows(hist["a"].store_at_call)

\* C22: the starting value of a run is M, the largest total irrelevance (age
\* irrelevance of its bucket + item irrelevance) of an evictable row; the first
\* executor call has the threshold M - 1; every row a delete of that first call
\* removes has the total exactly M; and when the project had an evictable row the
\* first call deletes at least one row.
FirstSweepHitsMaximum ==
    /\ [](\A r \in Runs :
            (Surveyed(r) /\ run[r].pc \notin {"survey", "pairs"}) =>
                /\ run[r].orig_max_total_irrelevance
                       = ObservedMaximum(hist[r].store_at_call, run[r].project,
                                         run[r].epoch_bounds_with_irrelevance)
                /\ hist[r].thresholds # <<>> =>
                       hist[r].thresholds[1] = run[r].orig_max_total_irrelevance - 1
                /\ (FirstSweepOver(r) /\ EvictableAtCall(r) >= 1) => run[r].deleted >= 1)
    /\ [][\A r \in Runs :
            (BucketDeleteStep(r) /\ Surveyed(r) /\ Len(hist[r].thresholds) = 1) =>
                \A k \in DOMAIN store :
                    (k \notin DOMAIN store' \/ store'[k] < store[k]) =>
                        TotalIrrelevance(k, run[r].epoch_bounds_with_irrelevance)
                            = run[r].orig_max_total_irrelevance]_vars

\* C22 witness: the first executor call of a run is over, it deleted two rows of the
\* maximum M >= 2, and an evictable row of a lower total is still stored.
FirstSweepWitness ==
    /\ Surveyed("a")
    /\ Len(hist["a"].thresholds) = 1
    /\ run["a"].pc = "loop"
    /\ run["a"].deleted = 2
    /\ run["a"].orig_max_total_irrelevance >= 2
    /\ EvictableRows(store, 1) # {}

\* C23: during a run (one thread, the pending row not yet inserted) the surveyed
\* maximum of every bucket stays an upper bound of the item irrelevance of the
\* evictable rows stored in the bucket, and a bucket that filter_for_work left out
\* of the current sweep, of threshold T, holds no evictable row whose total
\* irrelevance is above T.
SkippingIsSafe ==
    \A r \in Runs :
        (Surveyed(r) /\ BeforeInsert(r)) =>
            LET ebwi == run[r].epoch_bounds_with_irrelevance
                here(k) == {e \in EvictableRows(store, run[r].project) :
                               InBucket(e, ebwi[k])}
            IN /\ \A k \in 1 .. Len(ebwi) :
                     \A e \in here(k) : e.irr <= run[r].pairs[k][2]
               /\ hist[r].thresholds # <<>> =>
                     \A k \in 1 .. Len(ebwi) :
                         ebwi[k] \notin Range(run[r].work) =>
                             \A e \in here(k) :
                                 ebwi[k][2] + e.irr <= run[r].max_total_irrelevance

\* C23 witness: a sweep that deleted rows left out a bucket that holds an evictable
\* row.
SkippedBucketWitness ==
    /\ Surveyed("a")
    /\ BeforeInsert("a")
    /\ hist["a"].thresholds # <<>>
    /\ run["a"].exec_deleted >= 1
    /\ \E k \in 1 .. Len(run["a"].epoch_bounds_with_irrelevance) :
          /\ run["a"].epoch_bounds_with_irrelevance[k] \notin Range(run["a"].work)
          /\ \E e \in EvictableRows(store, 1) :
                InBucket(e, run["a"].epoch_bounds_with_irrelevance[k])

-----------------------------------------------------------------------------
(* The executor's two break tests                                          *)

\* a call of evict_for_irrelevance by thread r has returned: a call of its own, or
\* the planner's latest call
ExecutorOver(r) ==
    \/ run[r].op = "evict_for_irrelevance" /\ run[r].pc = "done"
    \/ Surveyed(r) /\ hist[r].thresholds # <<>> /\ run[r].pc \in {"loop", "raised"}

\* the quota of the call has been reached by the deletions of the call
QuotaReached(r) ==
    run[r].max_event_count # None /\ run[r].exec_deleted >= run[r].max_event_count[1]

\* the item irrelevance allowed in the bucket the call visited last
LastAllowed(r) == run[r].max_total_irrelevance - run[r].work[run[r].i][2]

\* the call ended on the quota test, with buckets left to visit
StoppedByQuota(r) ==
    /\ run[r].work # <<>>
    /\ run[r].i < Len(run[r].work)
    /\ LastAllowed(r) > -1
    /\ QuotaReached(r)

\* the rows of the table B that the table C has fewer of
Removed(B, C) == {k \in DOMAIN B : k \notin DOMAIN C \/ C[k] < B[k]}

RECURSIVE ReferenceFrom(_, _, _, _, _)
\* the alternative executor of the comment in evict_for_epoch_and_irrelevance: every
\* bucket of the list deletes with its lower and its upper bound
ReferenceFrom(B, project, max_total_irrelevance, work, i) ==
    IF i > Len(work) THEN B
    ELSE ReferenceFrom(Without(B, {e \in EvictableRows(B, project) :
                                      /\ InBucket(e, work[i])
                                      /\ e.irr > max_total_irrelevance - work[i][2]}),
                       project, max_total_irrelevance, work, i + 1)

ReferenceExecutor(B, project, max_total_irrelevance, work) == ReferenceFrom(B, project, max_total_irrelevance, work, 1)

-----------------------------------------------------------------------------

\* C24, as the specification states it: a call of evict_for_irrelevance by the
\* planner with the quota q >= 1 deletes at most q rows.
QuotaCapsCall ==
    \A r \in Runs :
        (ExecutorOver(r) /\ PlannerRun(r) /\ Accurate(r)
            /\ run[r].max_event_count[1] >= 1) =>
                run[r].exec_deleted <= run[r].max_event_count[1]

\* C24, amended: the quota is tested between bucket deletes only.  A planner's call
\* issues a bucket delete other than its first only while the deletions of the call
\* are below q, so a call deletes at most max(q - 1, 0) rows plus the rows of one
\* bucket delete, which is not limited; and a call whose deletions have reached q
\* issues no further delete.
QuotaBoundsCall ==
    [][\A r \in Runs :
          (BucketDeleteStep(r) /\ Surveyed(r)) =>
              LET q == run[r].max_event_count[1]
                  removed == BagCardinality(store) - BagCardinality(store')
              IN /\ run'[r].exec_deleted = run[r].exec_deleted + removed
                 /\ run'[r].exec_deleted <= (IF q >= 1 THEN q - 1 ELSE 0) + removed
                 /\ run'[r].exec_deleted >= q => run'[r].pc # "exec"]_vars

\* C24 witness: a call by an ingest's planner, quota 1, deleted three rows and took
\* the project below its target.
OverQuotaWitness ==
    /\ ExecutorOver("a") /\ PlannerRun("a") /\ Accurate("a")
    /\ run["a"].op = "ingest"
    /\ run["a"].max_event_count = Some(1)
    /\ run["a"].exec_deleted = 3
    /\ run["a"].stored_event_count[1] - run["a"].deleted < Target("a")

\* C25: a call of evict_for_irrelevance at the threshold T that the quota did not
\* stop leaves the table it found minus exactly the unprotected rows of the project
\* whose total irrelevance (age irrelevance of the row's own bucket + item
\* irrelevance) is above T: the table a reference executor leaves that deletes with
\* the lower and the upper bound of every bucket.
LowerBoundIsImplied ==
    \A r \in Runs :
        (ExecutorOver(r) /\ ~StoppedByQuota(r)) =>
            /\ store = Without(hist[r].store_at_exec,
                               {e \in EvictableRows(hist[r].store_at_exec, run[r].project) :
                                   TotalIrrelevance(e, run[r].epoch_bounds_with_irrelevance)
                                       > run[r].max_total_irrelevance})
            /\ store = ReferenceExecutor(hist[r].store_at_exec, run[r].project,
                                         run[r].max_total_irrelevance, run[r].work)

\* C25 witness: a call that visited all of its buckets, more than one, deleted rows
\* of two buckets and left an unprotected row of the project.
TwoBucketsSweptWitness ==
    /\ ExecutorOver("a") /\ ~StoppedByQuota("a")
    /\ Len(run["a"].work) >= 2
    /\ run["a"].i = Len(run["a"].work)
    /\ EvictableRows(store, run["a"].project) # {}
    /\ \E e, f \in Removed(hist["a"].store_at_exec, store) :
          TagAt(e.ts, run["a"].epoch_bounds_with_irrelevance)
              # TagAt(f.ts, run["a"].epoch_bounds_with_irrelevance)

\* C26: a call of evict_for_irrelevance that ends before its last bucket without
\* having reached its quota ended on the test T - age irrelevance <= -1; and after
\* the delete of a bucket with T - age irrelevance <= -1 no unprotected row of the
\* project below the bucket's upper bound is stored, so that the buckets not visited
\* hold no evictable row.
EarlyExitLosesNothing ==
    \A r \in Runs :
        (ExecutorOver(r) /\ run[r].work # <<>>) =>
            LET bucket == run[r].work[run[r].i]
                below == {e \in EvictableRows(store, run[r].project) :
                             bucket[1][2] = None \/ EpochOf(e.ts) < bucket[1][2][1]}
            IN /\ (run[r].i < Len(run[r].work) /\ ~QuotaReached(r)) => LastAllowed(r) <= -1
               /\ LastAllowed(r) <= -1 =>
                     /\ below = {}
                     /\ \A k \in (run[r].i + 1) .. Len(run[r].work) :
                           \A e \in EvictableRows(store, run[r].project) :
                               ~InBucket(e, run[r].work[k])

\* C26 witness: a call ended on the test at a bucket that is not its last, having
\* deleted a row that lay in a bucket it did not visit.
EarlyExitWitness ==
    /\ ExecutorOver("a")
    /\ run["a"].work # <<>>
    /\ run["a"].i < Len(run["a"].work)
    /\ LastAllowed("a") <= -1
    /\ \E e \in Removed(hist["a"].store_at_exec, store) :
          \E k \in (run["a"].i + 1) .. Len(run["a"].work) : InBucket(e, run["a"].work[k])

\* C27: inside a call of evict_for_irrelevance a bucket delete is due only at the
\* first bucket or while the deletions of the call are below the quota; and after a
\* stop on the quota every unprotected row of the project that is still stored with a
\* total irrelevance above T lies in a bucket older than the bucket visited last.
QuotaStopSparesOlder ==
    \A r \in Runs :
        /\ run[r].pc = "exec" =>
              \/ run[r].i = 1 /\ run[r].exec_deleted = 0
              \/ ~QuotaReached(r)
        /\ (ExecutorOver(r) /\ StoppedByQuota(r)) =>
              \A e \in EvictableRows(store, run[r].project) :
                  TotalIrrelevance(e, run[r].epoch_bounds_with_irrelevance)
                          > run[r].max_total_irrelevance =>
                      /\ TagAt(e.ts, run[r].epoch_bounds_with_irrelevance)
                             > run[r].work[run[r].i][2]
                      /\ EpochOf(e.ts) < run[r].work[run[r].i][1][1][1]

\* C27 witness: a call stopped on its quota after its first bucket and spared a row
\* of an older bucket whose total irrelevance is above T.
SparedOlderWitness ==
    /\ ExecutorOver("a") /\ StoppedByQuota("a")
    /\ run["a"].i = 1
    /\ \E e \in EvictableRows(store, run["a"].project) :
          TotalIrrelevance(e, run["a"].epoch_bounds_with_irrelevance)
              > run["a"].max_total_irrelevance

-----------------------------------------------------------------------------

\* C28: evict_for_epoch_and_irrelevance(P, bound, m) removes exactly the rows with
\* project = P, never_evict = false, item irrelevance > m and, when a bound is given,
\* a timestamp before the first second of the epoch bound; it returns their number;
\* every other row, the rows of other projects among them, is stored as before.
DeletePrimitiveFrame ==
    \A r \in Runs :
        (run[r].op = "evict_for_epoch_and_irrelevance" /\ run[r].pc = "done") =>
            LET B == hist[r].store_at_call
                bound == run[r].args[1]
                m == run[r].args[2]
                gone == {e \in Rows(B) :
                            /\ e.project = run[r].project
                            /\ ~e.never_evict
                            /\ e.irr > m
                            /\ bound # None => e.ts < bound[1] * SecondsPerEpoch}
            IN /\ Rows(store) = Rows(B) \ gone
               /\ \A e \in Rows(B) \ gone : store[e] = B[e]
               /\ run[r].ret = Some(BagCount(B, gone))

\* C28 witness: a delete with an epoch bound removed one row and kept a row of the
\* other project, a protected row and a row at the bound's epoch, all three above the
\* given item irrelevance.
DeletePrimitiveWitness ==
    /\ run["a"].op = "evict_for_epoch_and_irrelevance" /\ run["a"].pc = "done"
    /\ run["a"].args[1] # None
    /\ run["a"].ret = Some(1)
    /\ \E e, f, g \in Rows(store) :
          /\ e.irr > run["a"].args[2] /\ f.irr > run["a"].args[2] /\ g.irr > run["a"].args[2]
          /\ e.project = 2 /\ ~e.never_evict /\ EpochOf(e.ts) < run["a"].args[1][1]
          /\ f.project = 1 /\ f.never_evict /\ EpochOf(f.ts) < run["a"].args[1][1]
          /\ g.project = 1 /\ ~g.never_evict /\ EpochOf(g.ts) = run["a"].args[1][1]

-----------------------------------------------------------------------------

\* how often the query q occurs in a log
Occurrences(log, q) == Cardinality({i \in DOMAIN log : log[i] = q})

-----------------------------------------------------------------------------

\* the run of evict_for_max_events of an ingest returned and the row was inserted
IngestedAfterEviction(r) ==
    /\ ReturnedNormally(r)
    /\ run[r].op = "ingest"
    /\ run[r].pc = "done"

\* C30: after a run of evict_for_max_events that returned normally, its count having
\* included the pending row, and the insert of that row, should_evict is false on the
\* count after each of the next max - lowered_target(max) inserts into the project;
\* the same holds after a run on its own, once the pending row is counted in; and the
\* ingest that follows such an ingest into the same project does not call
\* evict_for_max_events.
Hysteresis ==
    /\ [](\A r \in Runs :
            LET cap == RetentionMaxEventCount(run[r].project)
                count == CountEvents(store, run[r].project)
            IN /\ IngestedAfterEviction(r) =>
                     \A n \in 1 .. (cap - LoweredTarget(cap)) :
                         ~ShouldEvict(run[r].project, run[r].timestamp, count + n)
               /\ (ReturnedNormally(r) /\ Accurate(r)
                      /\ run[r].op = "evict_for_max_events" /\ run[r].pc = "done") =>
                     \A n \in 1 .. (cap - LoweredTarget(cap)) :
                         ~ShouldEvict(run[r].project, run[r].timestamp, (count + 1) + n))
    /\ [][\A r \in Runs :
            (/\ IngestedAfterEviction(r)
             /\ run'[r].op = "ingest"
             /\ hist'[r].query_log = <<"count">>
             /\ run'[r].project = run[r].project) => run'[r].pc = "insert"]_vars

\* C30 witness: an ingest whose eviction returned normally has inserted its row and
\* left the project exactly at its lowered target, one insert away from its capacity.
AtTargetWitness ==
    /\ IngestedAfterEviction("a")
    /\ run["a"].project = 1
    /\ CountEvents(store, 1) = Target("a")
    /\ CountEvents(store, 1) + 1 = RetentionMaxEventCount(1)

-----------------------------------------------------------------------------
(* A full table whose rows span several buckets                            *)

MaxAgedEpoch == 3    \* the rows of the aged table lie in the epochs 0 .. MaxAgedEpoch

\* unprotected rows of every epoch and item irrelevance, and one protected row
AgedRows ==
    [project : {1}, ts : {MidEpoch(e) : e \in 0 .. MaxAgedEpoch}, irr : 0 .. MaxIrr,
     never_evict : {FALSE}]
        \cup {[project |-> 1, ts |-> MidEpoch(0), irr |-> MaxIrr, never_evict |-> TRUE]}

RECURSIVE AgedTablesOf(_)
AgedTablesOf(n) ==
    IF n = 0 THEN {NoTable}
    ELSE {Created(B, e) : B \in AgedTablesOf(n - 1), e \in AgedRows}

\* the project is at its capacity, with rows ingested over the epochs 0 .. MaxAgedEpoch
InitAged ==
    /\ store \in AgedTablesOf(Capacity)
    /\ run = [r \in Runs |-> IdleRun]
    /\ hist = [r \in Runs |-> NewHist(NoTable)]

\* calls in the newest epoch: an insertion, or the eviction engine called directly
Arrive(r) ==
    \/ \E i \in 0 .. MaxIrr, n \in BOOLEAN :
          CallIngest(r, [project |-> 1, ts |-> MidEpoch(MaxAgedEpoch), irr |-> i,
                         never_evict |-> n])
    \/ \E c \in {None, Some(Capacity + 2)} :
          CallEvictForMaxEvents(r, 1, MidEpoch(MaxAgedEpoch), c)

NextAged == Arrive("a") \/ Step("a")

\* one thread of control over the aged table
SpecAged == InitAged /\ [][NextAged]_vars

-----------------------------------------------------------------------------
(* Exhaustion and the order of eviction                                    *)

\* the rows the run must delete to reach its target
Excess(r) == run[r].stored_event_count[1] - Target(r)

\* C31: a run of evict_for_max_events (one thread) raises the exhaustion error only
\* if the project had fewer unprotected rows when the run began than
\* stored_event_count - lowered_target(capacity); a run that began with at least that
\* many does not raise, and where it has ended it has returned.
ExhaustionOnlyWhenUnreachable ==
    \A r \in Runs :
        PlannerRun(r) =>
            /\ run[r].pc = "raised" => EvictableAtCall(r) < Excess(r)
            /\ (EvictableAtCall(r) >= Excess(r) /\ Free(r)) => run[r].ret # None

\* C31 witness: a run that began with exactly as many unprotected rows as it had to
\* delete, next to a protected row, has returned after the sweep at -1.
JustEnoughWitness ==
    /\ ReturnedNormally("a")
    /\ Free("a")
    /\ Excess("a") >= 2
    /\ EvictableAtCall("a") = Excess("a")
    /\ run["a"].max_total_irrelevance = -1
    /\ \E e \in Rows(store) : e.project = run["a"].project /\ e.never_evict

\* C32: when evict_for_max_events has raised the exhaustion error, the deletes it
\* made stand: no unprotected row of the project is stored, every row of the project
\* that is stored is protected and stored as at the start of the run, and the rows of
\* other projects are untouched.
ExhaustionNotRolledBack ==
    \A r \in Runs :
        (PlannerRun(r) /\ run[r].pc = "raised") =>
            /\ EvictableRows(store, run[r].project) = {}
            /\ run[r].deleted = EvictableAtCall(r)
            /\ store = Without(hist[r].store_at_call,
                               EvictableRows(hist[r].store_at_call, run[r].project))

\* C32 witness: a run has raised after deleting two rows; a protected row of the
\* project and a row of the other project are left.
RaisedEmptiedWitness ==
    /\ PlannerRun("a")
    /\ run["a"].pc = "raised"
    /\ run["a"].deleted = 2
    /\ OtherEvent \in Rows(store)
    /\ BagCount(store, {e \in Rows(store) : e.project = 1 /\ e.never_evict}) = 1

\* C33: when a run of evict_for_max_events (one thread) has returned normally, every
\* row it deleted had a total irrelevance at least that of every unprotected row of
\* the project that is still stored.
EvictionRespectsOrder ==
    \A r \in Runs :
        (ReturnedNormally(r) /\ BeforeInsert(r)) =>
            \A d \in Removed(hist[r].store_at_call, store) :
                \A e \in EvictableRows(store, run[r].project) :
                    TotalIrrelevance(d, run[r].epoch_bounds_with_irrelevance)
                        >= TotalIrrelevance(e, run[r].epoch_bounds_with_irrelevance)

-----------------------------------------------------------------------------

\* thread r raises the exhaustion error in this step
Raises(r) == run[r].pc # "raised" /\ run'[r].pc = "raised"

\* C34, as the specification states it: when the statements of two runs for one
\* project interleave, a run raises the exhaustion error only if the rows of the
\* project that are stored at that moment, the pending row counted in, still exceed
\* lowered_target(capacity).
NoSpuriousExhaustion ==
    [][\A r \in Runs :
          Raises(r) =>
              CountEvents(store', run[r].project) + 1
                  > LoweredTarget(RetentionMaxEventCount(run[r].project))]_vars

\* C34, amended: a run raises on its own book-keeping.  It raises after the sweep
\* at the threshold -2, which it entered because the count it was given or took at
\* its start, minus the rows it had deleted itself by then, still exceeded
\* lowered_target(capacity); the rows other runs deleted are not counted, and the
\* loop test is not repeated before the raise, so that the table may by then be at or
\* below the target.
ExhaustionCountsOwnDeletions ==
    \A r \in Runs :
        (PlannerRun(r) /\ run[r].pc = "raised") =>
            /\ run[r].stored_event_count[1] - (run[r].deleted - run[r].exec_deleted)
                   > Target(r)
            /\ run[r].max_total_irrelevance = -2

\* C34 witness: both runs counted the full table; one has returned, the other has
\* raised although the project holds no more rows than its lowered target allows
\* after the insert.
SpuriousExhaustionWitness ==
    /\ BothEndedOverCapacity
    /\ run["a"].pc = "done"
    /\ run["b"].pc = "raised"
    /\ run["b"].deleted >= 1
    /\ CountEvents(store, 1) + 1 <= Target("b")

-----------------------------------------------------------------------------
(* issues/views.py: strings                                                *)
(* A string is the sequence of its characters.                             *)

StartsWith(s, prefix) ==
    Len(s) >= Len(prefix) /\ SubSeq(s, 1, Len(prefix)) = prefix

\* needle in haystack
In(needle, haystack) ==
    \E i \in 1 .. (Len(haystack) - Len(needle) + 1) :
        SubSeq(haystack, i, i + Len(needle) - 1) = needle

RECURSIVE Like(_, _)
\* the lookup __contains: the column matches LIKE %pattern%, tried at every offset
Like(column, pattern) ==
    IF Len(column) < Len(pattern) THEN FALSE
    ELSE StartsWith(column, pattern) \/ Like(Tail(column), pattern)

\* the ASCII letters of the strings used below, folded to lower case
Lower(c) == IF c = "A" THEN "a" ELSE IF c = "B" THEN "b" ELSE c

Fold(s) == [i \in 1 .. Len(s) |-> Lower(s[i])]

\* the database of the installation: LIKE is case-insensitive for ASCII on
\* SQLite (there __contains acts as __icontains), case-sensitive on PostgreSQL
Vendors == {"sqlite", "postgresql"}

Contains(vendor, column, pattern) ==
    IF vendor = "sqlite" THEN Like(Fold(column), Fold(pattern))
    ELSE Like(column, pattern)

RECURSIVE SplitFrom(_, _, _, _)
\* str.split(sep, maxsplit) for a separator of one character; maxsplit -1 is no limit
SplitFrom(s, sep, maxsplit, part) ==
    IF s = <<>> THEN <<part>>
    ELSE IF Head(s) = sep /\ maxsplit # 0
         THEN <<part>> \o SplitFrom(Tail(s), sep, maxsplit - 1, <<>>)
         ELSE SplitFrom(Tail(s), sep, maxsplit, Append(part, Head(s)))

Split(s, sep, maxsplit) == SplitFrom(s, sep, maxsplit, <<>>)

Digits == {"0", "1", "2", "3", "4", "5", "6", "7", "8", "9"}

\* int(s) succeeds (strings of digits; no sign or blank occurs in the actions)
IsInt(s) == s # <<>> /\ \A i \in 1 .. Len(s) : s[i] \in Digits

Newline == <<"\n">>

Str_resolve == <<"r", "e", "s", "o", "l", "v", "e">>
Str_resolved == <<"r", "e", "s", "o", "l", "v", "e", "d">>
Str_resolved_next == <<"r", "e", "s", "o", "l", "v", "e", "d", "_", "n", "e", "x", "t">>
Str_resolved_release == <<"r", "e", "s", "o", "l", "v", "e", "d", "_", "r", "e", "l", "e", "a", "s", "e", ":">>
Str_mute == <<"m", "u", "t", "e">>
Str_mute_for == <<"m", "u", "t", "e", "_", "f", "o", "r", ":">>
Str_mute_until == <<"m", "u", "t", "e", "_", "u", "n", "t", "i", "l", ":">>
Str_unmute == <<"u", "n", "m", "u", "t", "e">>
Str_reopen == <<"r", "e", "o", "p", "e", "n">>
Str_day_1 == <<"d", "a", "y", ",", "1", ",">>
Str_day == <<"d", "a", "y">>
Str_hour_1_5 == <<"h", "o", "u", "r", ",", "1", ",", "5">>

-----------------------------------------------------------------------------
(* issues/views.py: the validity checks                                    *)

\* lines 35-58
IsValidAction(action, issue) ==
    IF issue.is_resolved THEN FALSE
    ELSE IF StartsWith(action, Str_resolved_release)
         THEN ~In(Split(action, ":", 1)[2] \o Newline, issue.events_at)
    ELSE IF StartsWith(action, Str_mute) THEN ~issue.is_muted
    ELSE IF action = Str_unmute THEN issue.is_muted
    ELSE TRUE

\* a Q object is the set of its conditions, joined by |
Q(field, lookup, value) == {[field |-> field, lookup |-> lookup, value |-> value]}

\* lines 61-76
QForInvalidForAction(action) ==
    LET illegal_conditions == Q("is_resolved", "exact", TRUE)
    IN IF StartsWith(action, Str_resolved_release)
       THEN illegal_conditions
                \cup Q("events_at", "contains", Split(action, ":", 1)[2] \o Newline)
       ELSE IF StartsWith(action, Str_mute)
            THEN illegal_conditions \cup Q("is_muted", "exact", TRUE)
       ELSE IF action = Str_unmute
            THEN illegal_conditions \cup Q("is_muted", "exact", FALSE)
       ELSE illegal_conditions

\* the row of an issue passes filter(q)
Matches(vendor, issue, q) ==
    \E c \in q :
        IF c.lookup = "contains" THEN Contains(vendor, issue[c.field], c.value)
        ELSE issue[c.field] = c.value

-----------------------------------------------------------------------------
(* issues/views.py: history and state change                               *)
(* In the specification of the issue views the database holds the tables   *)
(* Issue and TurningPoint, store.issues and store.turning_points, of the    *)
(* database store.vendor.                                                  *)

ValueError == "ValueError"

\* the kind that corresponds to an action: RESOLVED for the resolving actions,
\* MUTED for the mute actions, UNMUTED for unmute
TurningPointKindOfResolving(action) ==
    IF action = Str_resolve THEN "RESOLVED"
    ELSE IF StartsWith(action, Str_resolved) THEN "RESOLVED"
    ELSE IF StartsWith(action, Str_mute) THEN "MUTED"
    ELSE IF action = Str_unmute THEN "UNMUTED"
    ELSE ValueError

\* lines 80-90: the kind of the turning point
TurningPointKindOf(action) ==
    IF action = Str_resolve THEN "FIRST_SEEN"
    ELSE IF StartsWith(action, Str_resolved) THEN "RESOLVED"
    ELSE IF StartsWith(action, Str_mute) THEN "MUTED"
    ELSE IF action = Str_unmute THEN "UNMUTED"
    ELSE ValueError

\* lines 92-117: the metadata, by its key; unpacking the parameters and int() may
\* raise
MetadataOf(action) ==
    IF StartsWith(action, Str_mute_for) \/ StartsWith(action, Str_mute_until)
    THEN LET params == Split(Split(action, ":", 1)[2], ",", -1)
         IN IF Len(params) # 3 THEN ValueError
            ELSE IF ~IsInt(params[2]) THEN ValueError
            ELSE IF StartsWith(action, Str_mute_for) THEN "mute_for" ELSE "mute_until"
    ELSE IF action = Str_mute THEN "mute_unconditionally"
    ELSE IF StartsWith(action, Str_resolved_release) THEN "resolved_release"
    ELSE IF action = Str_resolved_next THEN "resolve_by_next"
    ELSE IF action = Str_resolve THEN "resolved_unconditionally"
    ELSE "none"

RECURSIVE TurningPointsFor(_, _, _)
\* one TurningPoint per issue, in the order of the primary keys
TurningPointsFor(ids, kind, metadata) ==
    IF ids = {} THEN <<>>
    ELSE LET i == SetMin(ids)
         IN <<[issue |-> i, kind |-> kind, metadata |-> metadata]>>
                \o TurningPointsFor(ids \ {i}, kind, metadata)

\* lines 79-126: _make_history over the issues ids
MakeHistory(db, ids, action) ==
    IF TurningPointKindOf(action) = ValueError \/ MetadataOf(action) = ValueError
    THEN [raised |-> TRUE, db |-> db]
    ELSE [raised |-> FALSE,
          db |-> [db EXCEPT !.turning_points =
                     @ \o TurningPointsFor(ids, TurningPointKindOf(action),
                                           MetadataOf(action))]]

\* the state managers of issues/models.py, by the flag they set
ManagerEffect(issue, action) ==
    IF action = Str_resolve \/ StartsWith(action, Str_resolved_release)
           \/ action = Str_resolved_next
    THEN [issue EXCEPT !.is_resolved = TRUE]
    ELSE IF action = Str_mute \/ StartsWith(action, Str_mute_for)
               \/ StartsWith(action, Str_mute_until)
         THEN [issue EXCEPT !.is_muted = TRUE]
    ELSE IF action = Str_unmute THEN [issue EXCEPT !.is_muted = FALSE]
    ELSE issue

\* lines 147-156: int(gte_threshold) of mute_until may raise after the history
ManagerRaises(action) ==
    /\ StartsWith(action, Str_mute_until)
    /\ ~IsInt(Split(Split(action, ":", 1)[2], ",", -1)[3])

MaxTurningPoints == 2    \* a request begins while the history is shorter than this

IssueIds == {1, 2}

EventsAtValues == {<<>>, <<"a", "\n">>, <<"b", "a", "\n">>}

IssueStates == [is_resolved : BOOLEAN, is_muted : BOOLEAN, events_at : EventsAtValues]

Releases == {<<"a">>, <<"A">>}

\* the actions the templates post, an action that is not known and actions with
\* malformed parameters
PostedActions ==
    {Str_resolve, Str_resolved_next, Str_mute, Str_mute_for \o Str_day_1,
     Str_mute_until \o Str_hour_1_5, Str_unmute, Str_reopen, Str_mute_for \o Str_day,
     Str_mute_until \o Str_day_1}
        \cup {Str_resolved_release \o v : v \in Releases}

\* the issues of the primary keys ids that pass exclude(q)
Excluding(db, ids, q) == {i \in ids : ~Matches(db.vendor, db.issues[i], q)}

\* lines 213-224: _handle_post, up to the validity check
CallHandlePost(r, issue_pk, action) ==
    /\ Free(r)
    /\ Len(store.turning_points) < MaxTurningPoints
    /\ run' = [run EXCEPT ![r] =
                 [IdleRun EXCEPT !.op = "_handle_post",
                                 !.args = <<action, {issue_pk}>>,
                                 !.pc = IF IsValidAction(action, store.issues[issue_pk])
                                        THEN "history" ELSE "done"]]
    /\ hist' = [hist EXCEPT ![r] = NewHist(store)]
    /\ UNCHANGED store

\* lines 163-173: the POST branch of issue_list, up to the call of _apply_action;
\* the ids that are not applied are evaluated here
CallIssueList(r, issue_ids, action) ==
    /\ Free(r)
    /\ Len(store.turning_points) < MaxTurningPoints
    /\ run' = [run EXCEPT ![r] =
                 [IdleRun EXCEPT !.op = "issue_list",
                                 !.args = <<action, issue_ids>>,
                                 !.ret = Some(issue_ids \
                                              Excluding(store, issue_ids,
                                                        QForInvalidForAction(action))),
                                 !.pc = "history"]]
    /\ hist' = [hist EXCEPT ![r] = NewHist(store)]
    /\ UNCHANGED store

\* the issues a step of _apply_action works on: the issue of _handle_post, or the
\* rows that the queryset issue_qs.exclude(illegal_conditions) yields now
Affected(r) ==
    IF run[r].op = "_handle_post" THEN run[r].args[2]
    ELSE Excluding(store, run[r].args[2], QForInvalidForAction(run[r].args[1]))

\* line 130: _make_history
HistoryStep(r) ==
    /\ run[r].pc = "history"
    /\ LET res == MakeHistory(store, Affected(r), run[r].args[1])
       IN /\ store' = res.db
          /\ run' = [run EXCEPT ![r].pc = IF res.raised THEN "raised" ELSE "manager"]
    /\ hist' = Logged(r, "history")

\* lines 132-159, and issue.save() of _handle_post: the state change
ManagerStep(r) ==
    /\ run[r].pc = "manager"
    /\ IF ManagerRaises(run[r].args[1])
       THEN /\ run' = [run EXCEPT ![r].pc = "raised"]
            /\ UNCHANGED store
       ELSE /\ store' = [store EXCEPT !.issues =
                           [i \in IssueIds |->
                               IF i \in Affected(r) THEN ManagerEffect(@[i], run[r].args[1])
                               ELSE @[i]]]
            /\ run' = [run EXCEPT ![r].pc = "done"]
    /\ hist' = Logged(r, "manager")

\* new issues are neither resolved nor muted
InitIssues ==
    /\ store \in [issues : [IssueIds -> {s \in IssueStates : ~s.is_resolved /\ ~s.is_muted}],
                  turning_points : {<<>>}, vendor : Vendors]
    /\ run = [r \in Runs |-> IdleRun]
    /\ hist = [r \in Runs |-> NewHist(NoTable)]

Views(r) ==
    \/ \E i \in IssueIds, a \in PostedActions : CallHandlePost(r, i, a)
    \/ \E ids \in SUBSET IssueIds, a \in PostedActions : CallIssueList(r, ids, a)
    \/ HistoryStep(r)
    \/ ManagerStep(r)

NextIssues == Views("a")

\* one request at a time
SpecIssues == InitIssues /\ [][NextIssues]_vars

-----------------------------------------------------------------------------
(* The validity checks and the history of the issue views                  *)

Request(r) == run[r].op \in {"_handle_post", "issue_list"}

Applying(r) == Request(r) /\ run[r].pc \in {"history", "manager"}

\* C35: the two validity checks agree. For every action and every issue state
\* _is_valid_action(action, issue) is true exactly when the issue does not match
\* _q_for_invalid_for_action(action): the ids the bulk path leaves unapplied are
\* the ids _is_valid_action refuses; and no path applies an action to a resolved
\* issue.
ValidityChecksAgree ==
    /\ \A r \in Runs :
           (run[r].op = "_handle_post" /\ run[r].pc = "history") =>
               \A i \in run[r].args[2] :
                   ~Matches(store.vendor, store.issues[i],
                            QForInvalidForAction(run[r].args[1]))
    /\ \A r \in Runs :
           (run[r].op = "issue_list" /\ run[r].pc = "history") =>
               run[r].ret[1] = {i \in run[r].args[2] :
                                   ~IsValidAction(run[r].args[1], store.issues[i])}
    /\ \A r \in Runs :
           Applying(r) => \A i \in Affected(r) : ~store.issues[i].is_resolved

\* the turning points a request has written so far
Recorded(r) ==
    SubSeq(store.turning_points, Len(hist[r].store_at_call.turning_points) + 1,
           Len(store.turning_points))

\* C36: history matches the action. When _make_history has returned and the state
\* change is still to be applied, the request has recorded one turning point per
\* affected issue, of the kind that corresponds to the action: RESOLVED for
\* resolve, resolved_next and resolved_release:<v>, MUTED for the mute actions,
\* UNMUTED for unmute; a request with an unknown action has raised and has
\* recorded nothing.
HistoryMatchesAction ==
    \A r \in Runs :
        /\ (Request(r) /\ run[r].pc = "manager") =>
               /\ store.issues = hist[r].store_at_call.issues
               /\ Len(Recorded(r)) = Cardinality(Affected(r))
               /\ {Recorded(r)[k].issue : k \in 1 .. Len(Recorded(r))} = Affected(r)
               /\ \A k \in 1 .. Len(Recorded(r)) :
                      Recorded(r)[k].kind = TurningPointKindOfResolving(run[r].args[1])
        /\ (Request(r) /\ run[r].pc \in {"history", "manager", "raised"}
                /\ TurningPointKindOfResolving(run[r].args[1]) = ValueError) =>
               /\ run[r].pc # "manager"
               /\ store = hist[r].store_at_call

-----------------------------------------------------------------------------
(* snappea/decorators.py: shared_task                                      *)
(* In the specification of the task queue the database holds the table     *)
(* Task, store.tasks; store.log lists the calls of the wrapped functions    *)
(* and of wakeup_server in their order; store.eager is TASK_ALWAYS_EAGER.   *)

TypeError == "TypeError"

\* Python values: a type, the text of a scalar, the items of a container
Atom(t, text) == [t |-> t, s |-> text, items |-> <<>>]

Container(t, items) == [t |-> t, s |-> "", items |-> items]

\* a dict with string keys, as its items in insertion order: key, value, ...
Dict(items) == Container("dict", items)

RECURSIVE JsonSerializable(_)
\* the values the JSON encoder accepts
JsonSerializable(v) ==
    IF v.t \in {"int", "str", "NoneType", "bool"} THEN TRUE
    ELSE IF v.t \in {"list", "tuple", "dict"}
         THEN \A k \in 1 .. Len(v.items) : JsonSerializable(v.items[k])
    ELSE FALSE

RECURSIVE DumpsDefaultStr(_)
\* variant: an encoder with default=str, which encodes any other object as its text
DumpsDefaultStr(v) ==
    IF v.t \in {"int", "bool"} THEN <<v.s>>
    ELSE IF v.t = "NoneType" THEN <<"null">>
    ELSE IF v.t \in {"list", "tuple", "dict"}
         THEN <<"[">> \o (IF v.items = <<>> THEN <<>>
                          ELSE DumpsDefaultStr(Container("items", v.items)))
                      \o <<"]">>
    ELSE IF v.t = "items"
         THEN DumpsDefaultStr(Head(v.items))
                  \o (IF Len(v.items) = 1 THEN <<>>
                      ELSE <<", ">> \o DumpsDefaultStr(Container("items", Tail(v.items))))
    ELSE <<"\"", v.s, "\"">>

RECURSIVE Dumps(_)
\* json.dumps, as the tokens of the text; TypeError for an object that is not
\* serializable, wherever it is nested
Dumps(v) ==
    IF v.t = "int" THEN <<v.s>>
    ELSE IF v.t = "bool" THEN <<IF v.s = "True" THEN "true" ELSE "false">>
    ELSE IF v.t = "NoneType" THEN <<"null">>
    ELSE IF v.t = "str" THEN <<"\"", v.s, "\"">>
    ELSE IF v.t \in {"list", "tuple"}
         THEN IF v.items = <<>> THEN <<"[", "]">>
              ELSE LET inner == Dumps(Container("items", v.items))
                   IN IF inner = TypeError THEN TypeError
                      ELSE <<"[">> \o inner \o <<"]">>
    ELSE IF v.t = "dict"
         THEN IF v.items = <<>> THEN <<"{", "}">>
              ELSE LET inner == Dumps(Container("pairs", v.items))
                   IN IF inner = TypeError THEN TypeError
                      ELSE <<"{">> \o inner \o <<"}">>
    ELSE IF v.t = "items"
         THEN LET first == Dumps(Head(v.items))
                  rest == IF Len(v.items) = 1 THEN <<>>
                          ELSE Dumps(Container("items", Tail(v.items)))
              IN IF first = TypeError \/ rest = TypeError THEN TypeError
                 ELSE IF Len(v.items) = 1 THEN first
                 ELSE first \o <<", ">> \o rest
    ELSE IF v.t = "pairs"
         THEN LET key == Dumps(v.items[1])
                  value == Dumps(v.items[2])
                  rest == IF Len(v.items) = 2 THEN <<>>
                          ELSE Dumps(Container("pairs", Tail(Tail(v.items))))
              IN IF value = TypeError \/ rest = TypeError THEN TypeError
                 ELSE IF Len(v.items) = 2 THEN key \o <<": ">> \o value
                 ELSE key \o <<": ">> \o value \o <<", ">> \o rest
    ELSE TypeError

\* line 26: function.__module__ + "." + function.__name__
TaskName(function) == <<function.module, ".", function.name>>

\* the decorated functions
SharedTasks ==
    {[module |-> "ingest.tasks", name |-> "digest"],
     [module |-> "issues.tasks", name |-> "digest"]}

\* line 28: registry[name] = function
Registry == [n \in {TaskName(f) : f \in SharedTasks} |->
                CHOOSE f \in SharedTasks : TaskName(f) = n]

MaxDelays == 2    \* a call of delay() begins while fewer have taken effect

ArgsValues ==
    {Container("tuple", <<>>),
     Container("tuple", <<Atom("int", "1")>>),
     Container("tuple", <<Atom("str", "a"), Atom("NoneType", "None")>>),
     Container("tuple", <<Atom("datetime", "2026-01-01")>>),
     Container("tuple", <<Container("list", <<Atom("int", "1"), Atom("set", "{1}")>>)>>)}

KwargsValues ==
    {Dict(<<>>),
     Dict(<<Atom("str", "k"), Atom("bool", "True")>>),
     Dict(<<Atom("str", "k"), Atom("datetime", "2026-01-01")>>)}

\* the calls of delay() that created a Task or ran their function
Effected(db) ==
    Len(db.tasks) + Cardinality({k \in 1 .. Len(db.log) : db.log[k][1] = "function"})

\* line 10: delay(*args, **kwargs) is called; the setting is read
CallDelay(r, function, args, kwargs) ==
    /\ Free(r)
    /\ Effected(store) < MaxDelays
    /\ run' = [run EXCEPT ![r] =
                 [IdleRun EXCEPT !.op = "delay",
                                 !.args = <<function, args, kwargs>>,
                                 !.pc = IF store.eager THEN "eager" ELSE "create"]]
    /\ hist' = [hist EXCEPT ![r] = NewHist(store)]
    /\ UNCHANGED store

\* lines 14-18: both dumps, then the function, which returns or raises
EagerStep(r) ==
    /\ run[r].op = "delay"
    /\ run[r].pc = "eager"
    /\ IF Dumps(run[r].args[2]) = TypeError \/ Dumps(run[r].args[3]) = TypeError
       THEN /\ run' = [run EXCEPT ![r].pc = "raised"]
            /\ UNCHANGED store
       ELSE /\ store' = [store EXCEPT !.log =
                           Append(@, <<"function", run[r].args[1], run[r].args[2],
                                       run[r].args[3]>>)]
            /\ \E raises \in BOOLEAN :
                   run' = [run EXCEPT ![r].pc = IF raises THEN "raised" ELSE "done",
                                      ![r].ret = None]
    /\ hist' = Logged(r, "eager")

\* line 22: both dumps, then Task.objects.create
CreateStep(r) ==
    /\ run[r].op = "delay"
    /\ run[r].pc = "create"
    /\ IF Dumps(run[r].args[2]) = TypeError \/ Dumps(run[r].args[3]) = TypeError
       THEN /\ run' = [run EXCEPT ![r].pc = "raised"]
            /\ UNCHANGED store
       ELSE /\ store' = [store EXCEPT !.tasks =
                           Append(@, [task_name |-> TaskName(run[r].args[1]),
                                      args |-> Dumps(run[r].args[2]),
                                      kwargs |-> Dumps(run[r].args[3])])]
            /\ run' = [run EXCEPT ![r].pc = "wakeup"]
    /\ hist' = Logged(r, "create")

\* line 23: wakeup_server()
WakeupStep(r) ==
    /\ run[r].op = "delay"
    /\ run[r].pc = "wakeup"
    /\ store' = [store EXCEPT !.log = Append(@, <<"wakeup_server">>)]
    /\ run' = [run EXCEPT ![r].pc = "done", ![r].ret = None]
    /\ hist' = Logged(r, "wakeup")

InitSnappea ==
    /\ store \in [tasks : {<<>>}, log : {<<>>}, eager : BOOLEAN]
    /\ run = [r \in Runs |-> IdleRun]
    /\ hist = [r \in Runs |-> NewHist(NoTable)]

Delay(r) ==
    \/ \E f \in SharedTasks, args \in ArgsValues, kwargs \in KwargsValues :
           CallDelay(r, f, args, kwargs)
    \/ EagerStep(r)
    \/ CreateStep(r)
    \/ WakeupStep(r)

NextSnappea == Delay("a")

SpecSnappea == InitSnappea /\ [][NextSnappea]_vars

-----------------------------------------------------------------------------
(* Task dispatch                                                           *)

\* the Task record of a call of delay()
TaskOf(r) ==
    [task_name |-> <<run[r].args[1].module, ".", run[r].args[1].name>>,
     args |-> Dumps(run[r].args[2]),
     kwargs |-> Dumps(run[r].args[3])]

\* C37: task dispatch by delay(). With TASK_ALWAYS_EAGER a call that has
\* returned has run the wrapped function exactly once, has created no Task and
\* returns nothing; otherwise the call never runs the function, creates exactly
\* one Task with the registered module-qualified name and the JSON-encoded args
\* and kwargs, and wakes the server only after that; in both modes a call whose
\* arguments are not JSON-serializable fails before the function has run or a
\* Task exists.
DelayDispatches ==
    \A r \in Runs :
        run[r].op = "delay" =>
            LET before == hist[r].store_at_call
                ran == <<"function", run[r].args[1], run[r].args[2], run[r].args[3]>>
            IN /\ (~JsonSerializable(run[r].args[2]) \/ ~JsonSerializable(run[r].args[3])) =>
                      /\ run[r].pc \in {"eager", "create", "raised"}
                      /\ store = before
               /\ (before.eager /\ run[r].pc = "done") =>
                      /\ store.tasks = before.tasks
                      /\ store.log = Append(before.log, ran)
                      /\ run[r].ret = None
               /\ (before.eager /\ run[r].pc = "raised") =>
                      /\ store.tasks = before.tasks
                      /\ store.log \in {before.log, Append(before.log, ran)}
               /\ ~before.eager =>
                      /\ run[r].pc \in {"create", "raised"} => store = before
                      /\ run[r].pc = "wakeup" =>
                             /\ store.tasks = Append(before.tasks, TaskOf(r))
                             /\ store.log = before.log
                      /\ run[r].pc = "done" =>
                             /\ store.tasks = Append(before.tasks, TaskOf(r))
                             /\ store.log = Append(before.log, <<"wakeup_server">>)
                             /\ run[r].ret = None
                      /\ run[r].pc \in {"wakeup", "done"} =>
                             /\ TaskOf(r).task_name \in DOMAIN Registry
                             /\ Registry[TaskOf(r).task_name] = run[r].args[1]

\* a call delay("a", None, k=True) of issues.tasks.digest has returned on a
\* server that is not eager: the Task holds the encoded arguments
QueuedTaskWitness ==
    /\ "tasks" \in DOMAIN store
    /\ ~store.eager
    /\ run["a"].op = "delay"
    /\ run["a"].pc = "done"
    /\ Len(store.tasks) = 2
    /\ store.tasks[2] = [task_name |-> <<"issues.tasks", ".", "digest">>,
                         args |-> <<"[", "\"", "a", "\"", ", ", "null", "]">>,
                         kwargs |-> <<"{", "\"", "k", "\"", ": ", "true", "}">>]
    /\ store.log[Len(store.log)] = <<"wakeup_server">>

====
